---- MODULE Spec2Model ----
(***************************************************************************)
(* Model of the Minitel driver (src/src/Minitel.cpp, src/src/Minitel.h):  *)
(* the receive parser, the event FIFO and the transaction record.         *)
(*                                                                         *)
(* The driver object is the record `drv`; every member function of the    *)
(* source is an operator from a driver record (and its arguments) to the  *)
(* driver record after the call.  The actions apply these operators.      *)
(***************************************************************************)
EXTENDS Integers, Sequences, FiniteSets, TLC

(***************************************************************************)
(* Program constants                                                       *)
(***************************************************************************)
C_BS  == 8
C_HT  == 9
C_LF  == 10
C_VT  == 11
C_FF  == 12
C_CR  == 13
C_SO  == 14
C_SI  == 15
C_REP == 18
C_SEP == 19
C_CAN == 24
C_ESC == 27
C_RS  == 30
C_US  == 31
C_DEL == 127
EVENTBUF_SIZE == 16

(***************************************************************************)
(* Bounds of the model                                                     *)
(***************************************************************************)
\* bytes handed to parseByte in one behaviour of Spec
MaxInput == 5
\* pushEvent calls in one behaviour of SpecFifo
MaxPush == 18
\* poll calls in one behaviour of SpecTx
MaxPolls == 2
\* beginTransactionWaitSep / startSession calls in one behaviour
MaxCalls == 2
\* advances of the millisecond clock in one behaviour
MaxTicks == 1

Byte == 0..255

\* uint8_t arithmetic
U8(x) == x % 256
\* unsigned long (32 bit) values are kept as two 16-bit halves, hi * 65536 + lo
MkTime(hi, lo) == [hi |-> hi, lo |-> lo]
\* unsigned long addition, modulo 2^32
TimeAdd(t, n) ==
    MkTime((t.hi + ((t.lo + n) \div 65536)) % 65536, (t.lo + n) % 65536)
\* (uint16_t)(a - b): the low 16 bits of the unsigned difference
ElapsedU16(a, b) == (a.lo - b.lo + 65536) % 65536
\* a - b as an unsigned long, in two 16-bit halves
Elapsed32(a, b) ==
    LET borrow == IF a.lo < b.lo THEN 1 ELSE 0 IN
    MkTime((a.hi - b.hi - borrow + 65536) % 65536,
           (a.lo - b.lo + 65536) % 65536)

(***************************************************************************)
(* Minitel::Event                                                          *)
(***************************************************************************)
ZeroData == <<0, 0, 0, 0>>

\* An Event whose members are all written
MkEvent(t, code, row, col, escLen, escData) ==
    [type |-> t, code |-> code, row |-> row, col |-> col,
     escLen |-> escLen, escData |-> escData]

\* memset(eventBuf_, 0, ...): type 0 is CHAR
ZeroEvent == MkEvent("CHAR", 0, 0, 0, 0, ZeroData)

\* `Event ev;` is default-initialised: the members parseByte does not assign
\* (row, col, escLen, escData) hold whatever the stack held.  The residue is
\* a nondeterministic input of parseByte, drawn from this set.
StackResidue ==
    { [row |-> 0, col |-> 0, escLen |-> 0, escData |-> ZeroData],
      [row |-> 255, col |-> 170, escLen |-> 85, escData |-> <<1, 2, 3, 4>>] }

\* an Event of which only type and code were assigned
PartialEvent(t, code, junk) ==
    MkEvent(t, code, junk.row, junk.col, junk.escLen, junk.escData)

(***************************************************************************)
(* The driver object after construction                                    *)
(***************************************************************************)
Transaction0 ==
    [active |-> FALSE, sepRow |-> 0, sepCol |-> 0, timeoutMs |-> 0,
     startTime |-> MkTime(0, 0), success |-> FALSE]

Minitel0 ==
    [eventBuf |-> [i \in 0..(EVENTBUF_SIZE - 1) |-> ZeroEvent],
     eventHead |-> 0,
     eventTail |-> 0,
     waitingSepSecond |-> FALSE,
     escState |-> "ESC_IDLE",
     escTmp |-> [i \in 0..3 |-> 0],
     escTmpLen |-> 0,
     tx |-> Transaction0,
     sessionState |-> "Closed",
     lastSessionEventMs |-> MkTime(0, 0),
     currentSet |-> "G0_ALPHA",
     \* history: the bytes written to stream_, in order
     out |-> <<>>,
     \* history: number of "EV" lines pushEvent wrote to debug_ (one per call)
     evCount |-> 0]

(***************************************************************************)
(* Event FIFO                                                              *)
(***************************************************************************)
eventAvailable(d) == d.eventHead # d.eventTail

\* mutant: the newest event is returned first
readEventNewest(d) ==
    IF d.eventHead = d.eventTail
    THEN [ok |-> FALSE, ev |-> ZeroEvent, d |-> d]
    ELSE LET last == (d.eventHead + EVENTBUF_SIZE - 1) % EVENTBUF_SIZE IN
         [ok |-> TRUE,
          ev |-> d.eventBuf[last],
          d  |-> [d EXCEPT !.eventHead = last]]

\* readEvent: the returned flag, the event copied out, the driver afterwards
readEvent(d) ==
    IF d.eventHead = d.eventTail
    THEN [ok |-> FALSE, ev |-> ZeroEvent, d |-> d]
    ELSE [ok |-> TRUE,
          ev |-> d.eventBuf[d.eventTail],
          d  |-> [d EXCEPT !.eventTail = U8((d.eventTail + 1) % EVENTBUF_SIZE)]]

\* mutant: on overflow the new event is dropped
pushEventDropNewest(d, ev) ==
    LET next == U8((d.eventHead + 1) % EVENTBUF_SIZE) IN
    IF next = d.eventTail
    THEN [d EXCEPT !.evCount = @ + 1]
    ELSE [d EXCEPT !.eventBuf[d.eventHead] = ev,
                   !.eventHead = next,
                   !.evCount = @ + 1]

\* mutant: the event is stored in the slot after the head
pushEventStoreAtNext(d, ev) ==
    LET next == U8((d.eventHead + 1) % EVENTBUF_SIZE)
        tail == IF next = d.eventTail
                THEN U8((d.eventTail + 1) % EVENTBUF_SIZE)
                ELSE d.eventTail
    IN [d EXCEPT !.eventTail = tail,
                 !.eventBuf[next] = ev,
                 !.eventHead = next,
                 !.evCount = @ + 1]

pushEvent(d, ev) ==
    LET next == U8((d.eventHead + 1) % EVENTBUF_SIZE)
        tail == IF next = d.eventTail
                THEN U8((d.eventTail + 1) % EVENTBUF_SIZE)
                ELSE d.eventTail
    IN [d EXCEPT !.eventTail = tail,
                 !.eventBuf[d.eventHead] = ev,
                 !.eventHead = next,
                 !.evCount = @ + 1]

(***************************************************************************)
(* Transaction helpers                                                     *)
(***************************************************************************)
beginTransactionWaitSep(d, row, col, timeoutMs, millis) ==
    [d EXCEPT !.tx = [active |-> TRUE, sepRow |-> row, sepCol |-> col,
                      timeoutMs |-> timeoutMs, startTime |-> millis,
                      success |-> FALSE]]

\* mutant: only the row is compared
onSepForTransactionRowOnly(d, row, col) ==
    IF ~d.tx.active THEN d
    ELSE IF d.tx.sepRow # row THEN d
    ELSE [d EXCEPT !.tx.active = FALSE, !.tx.success = TRUE]

\* mutant: a SEP is matched whether a transaction is pending or not
onSepForTransactionAnyTime(d, row, col) ==
    IF d.tx.sepRow # row \/ d.tx.sepCol # col THEN d
    ELSE [d EXCEPT !.tx.active = FALSE, !.tx.success = TRUE]

onSepForTransaction(d, row, col) ==
    IF ~d.tx.active THEN d
    ELSE IF d.tx.sepRow # row \/ d.tx.sepCol # col THEN d
    ELSE [d EXCEPT !.tx.active = FALSE, !.tx.success = TRUE]

(***************************************************************************)
(* ESC / SEP parsing                                                       *)
(***************************************************************************)
\* mutant: SEP 5/4 opens the session whatever its state
handleSepAlwaysOpens(d, secondByte, millis) ==
    LET row == (secondByte \div 16) % 8
        col == secondByte % 16
        d1  == onSepForTransaction(d, row, col)
        d2  == IF row = 5 /\ col = 4
               THEN [d1 EXCEPT !.sessionState = "Open",
                               !.lastSessionEventMs = millis]
               ELSE d1
    IN pushEvent(d2, MkEvent("SEP", secondByte % 128, row, col, 0, ZeroData))

\* mutant: the column taken from three bits
handleSepCol3Bits(d, secondByte, millis) ==
    LET row == (secondByte \div 16) % 8
        col == secondByte % 8
        d1  == onSepForTransaction(d, row, col)
        d2  == IF row = 5 /\ col = 4
               THEN [d1 EXCEPT !.sessionState =
                                  IF @ = "Opening" THEN "Open" ELSE @,
                               !.lastSessionEventMs = millis]
               ELSE d1
    IN pushEvent(d2, MkEvent("SEP", secondByte % 128, row, col, 0, ZeroData))

handleSep(d, secondByte, millis) ==
    LET row == (secondByte \div 16) % 8
        col == secondByte % 16
        d1  == onSepForTransaction(d, row, col)
        d2  == IF row = 5 /\ col = 4
               THEN [d1 EXCEPT !.sessionState =
                                  IF @ = "Opening" THEN "Open" ELSE @,
                               !.lastSessionEventMs = millis]
               ELSE d1
    IN pushEvent(d2, MkEvent("SEP", secondByte % 128, row, col, 0, ZeroData))

\* mutant: the range test written c <= 0x7E
handleEscByteGotEscNoDel(d, c) ==
    IF c = 59
    THEN [d EXCEPT !.escState = "ESC_3B", !.escTmpLen = 0]
    ELSE IF c >= 64 /\ c <= 126
    THEN [pushEvent(d, MkEvent("ESCSEQ", c, 0, 0, 0, ZeroData))
            EXCEPT !.escState = "ESC_IDLE"]
    ELSE [d EXCEPT !.escState = "ESC_IDLE"]

\* case ESC_GOT_ESC of handleEscByte
handleEscByteGotEsc(d, c) ==
    IF c = 59
    THEN [d EXCEPT !.escState = "ESC_3B", !.escTmpLen = 0]
    ELSE IF c >= 64 /\ c <= 127
    THEN [pushEvent(d, MkEvent("ESCSEQ", c, 0, 0, 0, ZeroData))
            EXCEPT !.escState = "ESC_IDLE"]
    ELSE [d EXCEPT !.escState = "ESC_IDLE"]

\* mutant: the collection length is not reset after the event
handleEscByte3BKeepsLen(d, c) ==
    LET d1 == [d EXCEPT !.escTmp[d.escTmpLen] = c,
                        !.escTmpLen = U8(d.escTmpLen + 1)]
    IN IF d1.escTmpLen >= 3
       THEN [pushEvent(d1, MkEvent("ESCSEQ", 59, 0, 0, 3,
                         <<d1.escTmp[0] % 128, d1.escTmp[1] % 128,
                           d1.escTmp[2] % 128, 0>>))
               EXCEPT !.escState = "ESC_IDLE"]
       ELSE d1

\* mutant: the sequence ends after two payload bytes
handleEscByte3BTwoBytes(d, c) ==
    LET d1 == [d EXCEPT !.escTmp[d.escTmpLen] = c,
                        !.escTmpLen = U8(d.escTmpLen + 1)]
    IN IF d1.escTmpLen >= 2
       THEN [pushEvent(d1, MkEvent("ESCSEQ", 59, 0, 0, 3,
                         <<d1.escTmp[0] % 128, d1.escTmp[1] % 128,
                           d1.escTmp[2] % 128, 0>>))
               EXCEPT !.escState = "ESC_IDLE", !.escTmpLen = 0]
       ELSE d1

\* case ESC_3B of handleEscByte
handleEscByte3B(d, c) ==
    LET d1 == [d EXCEPT !.escTmp[d.escTmpLen] = c,
                        !.escTmpLen = U8(d.escTmpLen + 1)]
    IN IF d1.escTmpLen >= 3
       THEN [pushEvent(d1, MkEvent("ESCSEQ", 59, 0, 0, 3,
                         <<d1.escTmp[0] % 128, d1.escTmp[1] % 128,
                           d1.escTmp[2] % 128, 0>>))
               EXCEPT !.escState = "ESC_IDLE", !.escTmpLen = 0]
       ELSE d1

handleEscByte(d, c) ==
    CASE d.escState = "ESC_IDLE" -> d
      [] d.escState = "ESC_GOT_ESC" -> handleEscByteGotEsc(d, c)
      [] d.escState = "ESC_3B" -> handleEscByte3B(d, c)

\* mutant: US is not among the consumed controls
handleLineEditingControlNoUS(c) ==
    c \in {C_HT, C_VT, C_RS, C_CAN, C_DEL}

handleLineEditingControl(c) ==
    c \in {C_HT, C_VT, C_RS, C_US, C_CAN, C_DEL}

\* mutant: the parity bit is kept
KeepParity(c) == c

\* c &= 0x7F
StripParity(c) == c % 128

\* mutant: the pending SEP is not closed
parseByteSepStaysOpen(d, c0, junk, millis) ==
    LET c == StripParity(c0) IN
    IF d.escState # "ESC_IDLE" THEN handleEscByte(d, c)
    ELSE IF d.waitingSepSecond THEN handleSep(d, c, millis)
    ELSE IF handleLineEditingControl(c) THEN d
    ELSE IF c = C_ESC THEN [d EXCEPT !.escState = "ESC_GOT_ESC"]
    ELSE IF c = C_SEP THEN [d EXCEPT !.waitingSepSecond = TRUE]
    ELSE IF c = C_CR \/ c = C_LF \/ c = C_BS
    THEN pushEvent(d, PartialEvent("CHAR", c, junk))
    ELSE IF c < 32 THEN pushEvent(d, PartialEvent("CONTROL", c, junk))
    ELSE IF c >= 32 /\ c <= 126 THEN pushEvent(d, PartialEvent("CHAR", c, junk))
    ELSE d

\* mutant: the consumed controls are tested before the pending SEP
parseByteControlsFirst(d, c0, junk, millis) ==
    LET c == StripParity(c0) IN
    IF d.escState # "ESC_IDLE" THEN handleEscByte(d, c)
    ELSE IF handleLineEditingControl(c) THEN d
    ELSE IF d.waitingSepSecond
    THEN [handleSep(d, c, millis) EXCEPT !.waitingSepSecond = FALSE]
    ELSE IF c = C_ESC THEN [d EXCEPT !.escState = "ESC_GOT_ESC"]
    ELSE IF c = C_SEP THEN [d EXCEPT !.waitingSepSecond = TRUE]
    ELSE IF c = C_CR \/ c = C_LF \/ c = C_BS
    THEN pushEvent(d, PartialEvent("CHAR", c, junk))
    ELSE IF c < 32 THEN pushEvent(d, PartialEvent("CONTROL", c, junk))
    ELSE IF c >= 32 /\ c <= 126 THEN pushEvent(d, PartialEvent("CHAR", c, junk))
    ELSE d

parseByte(d, c0, junk, millis) ==
    LET c == StripParity(c0) IN
    IF d.escState # "ESC_IDLE" THEN handleEscByte(d, c)
    ELSE IF d.waitingSepSecond
    THEN [handleSep(d, c, millis) EXCEPT !.waitingSepSecond = FALSE]
    ELSE IF handleLineEditingControl(c) THEN d
    ELSE IF c = C_ESC THEN [d EXCEPT !.escState = "ESC_GOT_ESC"]
    ELSE IF c = C_SEP THEN [d EXCEPT !.waitingSepSecond = TRUE]
    ELSE IF c = C_CR \/ c = C_LF \/ c = C_BS
    THEN pushEvent(d, PartialEvent("CHAR", c, junk))
    ELSE IF c < 32 THEN pushEvent(d, PartialEvent("CONTROL", c, junk))
    ELSE IF c >= 32 /\ c <= 126 THEN pushEvent(d, PartialEvent("CHAR", c, junk))
    ELSE d

checkTransactionTimeout(d, millis) ==
    IF ~d.tx.active THEN d
    ELSE IF d.tx.timeoutMs = 0 THEN d
    ELSE IF ElapsedU16(millis, d.tx.startTime) > d.tx.timeoutMs
    THEN [d EXCEPT !.tx.active = FALSE, !.tx.success = FALSE]
    ELSE d

(***************************************************************************)
(* Core I/O and polling                                                    *)
(***************************************************************************)
\* the loop of poll: parseByte on every byte the stream holds, in order
RECURSIVE parseAll(_, _, _, _)
parseAll(d, bytes, junk, millis) ==
    IF bytes = <<>> THEN d
    ELSE parseAll(parseByte(d, Head(bytes), junk, millis), Tail(bytes), junk, millis)

\* mutant: the deadline is checked before the bytes are parsed
pollChecksFirst(d, bytes, junk, millis) ==
    parseAll(checkTransactionTimeout(d, millis), bytes, junk, millis)

\* poll with `bytes` available on the stream
poll(d, bytes, junk, millis) ==
    checkTransactionTimeout(parseAll(d, bytes, junk, millis), millis)

(***************************************************************************)
(* Session                                                                 *)
(***************************************************************************)
\* startSession(0): the non-blocking form
startSessionNoWait(d, millis) ==
    [d EXCEPT !.sessionState = "Opening", !.lastSessionEventMs = millis]

endSession(d, millis) ==
    [d EXCEPT !.sessionState = "Closed", !.lastSessionEventMs = millis]

(***************************************************************************)
(* TX helpers, screen and text, semi-graphics                              *)
(* (the driver after begin(): stream_ is set)                              *)
(***************************************************************************)
\* 0x40 | x
OrBit6(x) == IF (x \div 64) % 2 = 1 THEN x ELSE x + 64

writeRaw(d, b) == [d EXCEPT !.out = Append(@, b % 128)]

\* writeRaw(data, len)
RECURSIVE writeRawAll(_, _)
writeRawAll(d, data) ==
    IF data = <<>> THEN d
    ELSE writeRawAll(writeRaw(d, Head(data)), Tail(data))

\* the version in force: every byte of s is written as it is
printOptimized(d, s) == writeRawAll(d, s)

\* mutant: the tracked set is left as it was
clearScreenKeepsSet(d) == writeRaw(d, C_FF)

clearScreen(d) == [writeRaw(d, C_FF) EXCEPT !.currentSet = "G0_ALPHA"]

home(d) == [writeRaw(d, C_RS) EXCEPT !.currentSet = "G0_ALPHA"]

\* mutant: rows above 24 are not clamped
setCursorNoRowClamp(d, row, col) ==
    LET r1 == IF row < 1 THEN 1 ELSE row
        c1 == IF col < 1 THEN 1 ELSE col
        c2 == IF c1 > 40 THEN 40 ELSE c1
        rowCode == OrBit6(r1 % 32)
        colCode == OrBit6(c2 % 64)
    IN [writeRaw(writeRaw(writeRaw(d, C_US), rowCode), colCode)
          EXCEPT !.currentSet = "G0_ALPHA"]

setCursor(d, row, col) ==
    LET r1 == IF row < 1 THEN 1 ELSE row
        r2 == IF r1 > 24 THEN 24 ELSE r1
        c1 == IF col < 1 THEN 1 ELSE col
        c2 == IF c1 > 40 THEN 40 ELSE c1
        rowCode == OrBit6(r2 % 32)
        colCode == OrBit6(c2 % 64)
    IN [writeRaw(writeRaw(writeRaw(d, C_US), rowCode), colCode)
          EXCEPT !.currentSet = "G0_ALPHA"]

setCursorRow0(d, col) ==
    LET c1 == IF col < 1 THEN 1 ELSE col
        c2 == IF c1 > 40 THEN 40 ELSE c1
        colCode == OrBit6(c2 % 64)
    IN [writeRaw(writeRaw(writeRaw(d, C_US), 64), colCode)
          EXCEPT !.currentSet = "G0_ALPHA"]

putChar(d, c) ==
    LET d1 == IF d.currentSet # "G0_ALPHA"
              THEN [writeRaw(d, C_SI) EXCEPT !.currentSet = "G0_ALPHA"]
              ELSE d
    IN writeRaw(d1, c)

\* the first loop of printRow0: at most 40 characters of s, up to CR or LF
RECURSIVE Row0Text(_, _)
Row0Text(s, room) ==
    IF s = <<>> \/ room = 0 THEN <<>>
    ELSE IF Head(s) = C_CR \/ Head(s) = C_LF THEN <<>>
    ELSE <<Head(s) % 128>> \o Row0Text(Tail(s), room - 1)

printRow0(d, s) ==
    LET text == Row0Text(s, 40)
        pad  == [i \in 1..(40 - Len(text)) |-> 32]
    IN writeRaw(writeRawAll(writeRawAll(setCursorRow0(d, 1), text), pad), C_LF)

print(d, s) ==
    LET d1 == IF d.currentSet # "G0_ALPHA"
              THEN [writeRaw(d, C_SI) EXCEPT !.currentSet = "G0_ALPHA"]
              ELSE d
    IN printOptimized(d1, s)

beginSemiGraphics(d) ==
    IF d.currentSet # "G1_GRAPHIC"
    THEN [writeRaw(d, C_SO) EXCEPT !.currentSet = "G1_GRAPHIC"]
    ELSE d

endSemiGraphics(d) ==
    IF d.currentSet # "G0_ALPHA"
    THEN [writeRaw(d, C_SI) EXCEPT !.currentSet = "G0_ALPHA"]
    ELSE d

\* mutant: SO is written before every glyph
putSemiGraphicAlwaysShifts(d, code) ==
    writeRaw([writeRaw(d, C_SO) EXCEPT !.currentSet = "G1_GRAPHIC"], code % 128)

putSemiGraphic(d, code) == writeRaw(beginSemiGraphics(d), code % 128)

printSemiGraphics(d, s) ==
    LET d1 == IF d.currentSet # "G1_GRAPHIC"
              THEN [writeRaw(d, C_SO) EXCEPT !.currentSet = "G1_GRAPHIC"]
              ELSE d
    IN printOptimized(d1, s)

(***************************************************************************)
(* Blocking helpers.  The stream holds `reply` when the helper is called   *)
(* and nothing arrives afterwards.  The helper reads what it finds without *)
(* the clock advancing; when it finds nothing it polls until its timeout,  *)
(* the last time at the last millisecond its loop condition allows.        *)
(***************************************************************************)
\* waitEvent with a non-zero timeout: the flag returned, the event, the driver
waitEvent(d, timeoutMs, bytes, junk, millis) ==
    LET d1 == poll(d, bytes, junk, millis) IN
    IF eventAvailable(d1) THEN readEvent(d1)
    ELSE [ok |-> FALSE,
          ev |-> [ZeroEvent EXCEPT !.type = "TIMEOUT"],
          d  |-> checkTransactionTimeout(d1, TimeAdd(millis, timeoutMs))]

\* the loop of requestCursorPosition once poll has emptied the stream
RECURSIVE cursorReplyLoop(_, _, _, _, _, _)
cursorReplyLoop(d, outRow, outCol, timeoutMs, junk, millis) ==
    LET dp == poll(d, <<>>, junk, millis) IN
    IF ~eventAvailable(dp)
    THEN [ok |-> FALSE, outRow |-> outRow, outCol |-> outCol,
          d |-> checkTransactionTimeout(dp, TimeAdd(millis, timeoutMs - 1))]
    ELSE LET r == readEvent(dp) IN
         IF r.ev.type = "CONTROL" /\ r.ev.code = C_US
         THEN LET w1 == waitEvent(r.d, 50, <<>>, junk, millis) IN
              IF ~w1.ok \/ w1.ev.type # "CHAR"
              THEN [ok |-> FALSE, outRow |-> outRow, outCol |-> outCol, d |-> w1.d]
              ELSE LET w2 == waitEvent(w1.d, 50, <<>>, junk, millis) IN
                   IF ~w2.ok \/ w2.ev.type # "CHAR"
                   THEN [ok |-> FALSE, outRow |-> w1.ev.code % 128,
                         outCol |-> outCol, d |-> w2.d]
                   ELSE [ok |-> TRUE, outRow |-> w1.ev.code % 128,
                         outCol |-> w2.ev.code % 128, d |-> w2.d]
         ELSE cursorReplyLoop(r.d, outRow, outCol, timeoutMs, junk, millis)

\* requestCursorPosition(outRow, outCol, timeoutMs): the flag returned, the
\* two reference arguments afterwards, the driver afterwards
requestCursorPosition(d, outRow, outCol, timeoutMs, reply, junk, millis) ==
    LET d1 == writeRaw(writeRaw(d, C_ESC), 97) IN
    IF timeoutMs = 0
    THEN [ok |-> FALSE, outRow |-> outRow, outCol |-> outCol, d |-> d1]
    ELSE cursorReplyLoop(poll(d1, reply, junk, millis), outRow, outCol,
                         timeoutMs, junk, millis)

SEP_SEND == 65
\* the timeout of the waitEvent call in the loop of readLine
LINE_WAIT_MS == 100

\* the line is ended: the terminator is written at idx and readLine returns ok
readLineEnd(st, ok) ==
    [st EXCEPT !.writes = Append(@, <<st.idx, 0>>), !.returned = TRUE, !.ok = ok]

\* mutant: a printable byte is stored while idx <= bufSize
readLineEventNoRoom(st, ev, bufSize, echo, stopOnEnvoi) ==
    LET c == ev.code IN
    IF ev.type = "CHAR"
    THEN IF c = C_CR \/ c = C_LF
         THEN readLineEnd([st EXCEPT !.d = IF echo THEN print(@, <<C_CR, C_LF>>) ELSE @], TRUE)
         ELSE IF c = C_BS
         THEN (IF st.idx > 0
               THEN [st EXCEPT !.idx = @ - 1,
                               !.d = IF echo THEN print(@, <<C_BS, 32, C_BS>>) ELSE @]
               ELSE st)
         ELSE IF st.idx <= bufSize /\ c >= 32 /\ c <= 126
         THEN [st EXCEPT !.writes = Append(@, <<st.idx, c>>),
                         !.idx = @ + 1,
                         !.d = IF echo THEN putChar(@, c) ELSE @]
         ELSE st
    ELSE IF ev.type = "SEP" /\ stopOnEnvoi /\ c = SEP_SEND
    THEN readLineEnd([st EXCEPT !.d = IF echo THEN print(@, <<C_CR, C_LF>>) ELSE @], TRUE)
    ELSE st

\* what the loop of readLine does with one event; st holds the driver, idx,
\* the writes to buf in order (each the index and the byte), and whether
\* readLine has returned and what; bufSize is the size after bufSize--
readLineEvent(st, ev, bufSize, echo, stopOnEnvoi) ==
    LET c == ev.code IN
    IF ev.type = "CHAR"
    THEN IF c = C_CR \/ c = C_LF
         THEN readLineEnd([st EXCEPT !.d = IF echo THEN print(@, <<C_CR, C_LF>>) ELSE @], TRUE)
         ELSE IF c = C_BS
         THEN (IF st.idx > 0
               THEN [st EXCEPT !.idx = @ - 1,
                               !.d = IF echo THEN print(@, <<C_BS, 32, C_BS>>) ELSE @]
               ELSE st)
         ELSE IF st.idx < bufSize /\ c >= 32 /\ c <= 126
         THEN [st EXCEPT !.writes = Append(@, <<st.idx, c>>),
                         !.idx = @ + 1,
                         !.d = IF echo THEN putChar(@, c) ELSE @]
         ELSE st
    ELSE IF ev.type = "SEP" /\ stopOnEnvoi /\ c = SEP_SEND
    THEN readLineEnd([st EXCEPT !.d = IF echo THEN print(@, <<C_CR, C_LF>>) ELSE @], TRUE)
    ELSE st

\* the number of waitEvent calls that time out, one after the other, before
\* the global timeout test of readLine is true
RECURSIVE readLineWaits(_, _)
readLineWaits(timeoutMs, k) ==
    IF ((LINE_WAIT_MS + 1) * k) % 65536 > timeoutMs THEN k
    ELSE readLineWaits(timeoutMs, k + 1)

\* the loop of readLine.  With nothing left to read and timeoutMs = 0, or
\* timeoutMs = 65535 that no uint16_t exceeds, the loop does not end.
RECURSIVE readLineLoop(_, _, _, _, _, _, _, _)
readLineLoop(st, bytes, bufSize, echo, stopOnEnvoi, timeoutMs, junk, millis) ==
    LET w == waitEvent(st.d, LINE_WAIT_MS, bytes, junk, millis) IN
    IF w.ok
    THEN LET st1 == readLineEvent([st EXCEPT !.d = w.d], w.ev, bufSize, echo, stopOnEnvoi)
         IN IF st1.returned THEN st1
            ELSE readLineLoop(st1, <<>>, bufSize, echo, stopOnEnvoi, timeoutMs, junk, millis)
    ELSE IF timeoutMs = 0 \/ timeoutMs = 65535
    THEN [st EXCEPT !.d = w.d]
    ELSE LET k == readLineWaits(timeoutMs, 1)
             end == TimeAdd(millis, (LINE_WAIT_MS + 1) * k)
         IN readLineEnd([st EXCEPT !.d = checkTransactionTimeout(w.d, end)], FALSE)

\* readLine(buf, bufSize, echo, stopOnEnvoi, timeoutMs) with `bytes` in the
\* stream: whether it returns, the flag returned, idx, the writes to buf,
\* the driver
readLine(d, bufSize, echo, stopOnEnvoi, timeoutMs, bytes, junk, millis) ==
    IF bufSize = 0
    THEN [d |-> d, idx |-> 0, writes |-> <<>>, returned |-> TRUE, ok |-> FALSE]
    ELSE readLineLoop([d |-> d, idx |-> 0, writes |-> <<>>, returned |-> FALSE, ok |-> FALSE],
                      bytes, bufSize - 1, echo, stopOnEnvoi, timeoutMs, junk, millis)

(***************************************************************************)
(* MinitelGfx (src/src/MinitelGfx.cpp, src/src/MinitelGfx.h)               *)
(* Its member functions are operators on the pair [g, d]: the MinitelGfx   *)
(* object and the driver dev_ it writes through.                           *)
(***************************************************************************)
CELL_COLS == 40
CELL_ROWS == 24
PIXEL_COLS == CELL_COLS * 2
PIXEL_ROWS == CELL_ROWS * 3
NUM_CELLS == CELL_COLS * CELL_ROWS
\* Minitel::Color
Red == 1
White == 7

\* the program constructs no MinitelGfx
NoGfx == [constructed |-> FALSE]

\* the object after MinitelGfx::MinitelGfx
Gfx0 ==
    [constructed |-> TRUE,
     drawMode |-> "BitmapOnly",
     cellMask |-> [k \in 0..(NUM_CELLS - 1) |-> 0],
     lastCellMask |-> [k \in 0..(NUM_CELLS - 1) |-> 255],
     cellColor |-> [k \in 0..(NUM_CELLS - 1) |-> White],
     lastCellColor |-> [k \in 0..(NUM_CELLS - 1) |-> White],
     drawColor |-> White,
     termFgColor |-> White,
     curRow |-> 1,
     curCol |-> 1,
     hasCursor |-> FALSE]

\* 1u << i
Bit(i) == 2 ^ i
\* m | bit and m & ~bit, for a bit that is a power of two
BitSet(m, bit) == IF (m \div bit) % 2 = 1 THEN m ELSE m + bit
BitClear(m, bit) == IF (m \div bit) % 2 = 1 THEN m - bit ELSE m

charIndex(col, row) == row * CELL_COLS + col

\* mutant: the two coordinates exchanged
subPixelIndexInCharSwapped(xInChar, yInChar) == U8(xInChar * 2 + yInChar)

subPixelIndexInChar(xInChar, yInChar) == U8(yInChar * 2 + xInChar)

setSubPixelByChar(g, col, row, subIndex, on) ==
    IF col >= CELL_COLS \/ row >= CELL_ROWS \/ subIndex >= 6 THEN g
    ELSE LET k == charIndex(col, row)
             bit == Bit(subIndex)
         IN IF on
            THEN [g EXCEPT !.cellMask[k] = BitSet(@, bit),
                           !.cellColor[k] = g.drawColor]
            ELSE [g EXCEPT !.cellMask[k] = BitClear(@, bit)]

\* mutant: the full cell is given the code 0x7F
maskToG1Full7F(mask) ==
    LET m == mask % 64 IN
    IF m = 0 THEN 32
    ELSE IF m = 63 THEN 127
    ELSE IF m < 32 THEN U8(32 + m)
    ELSE U8(96 + (m - 32))

maskToG1(mask) ==
    LET m == mask % 64 IN
    IF m = 0 THEN 32
    ELSE IF m = 63 THEN 95
    ELSE IF m < 32 THEN U8(32 + m)
    ELSE U8(96 + (m - 32))

advanceCursorAfterPrint(g) ==
    IF g.curCol + 1 > CELL_COLS
    THEN [g EXCEPT !.curCol = 1,
                   !.curRow = IF @ < CELL_ROWS THEN @ + 1 ELSE @]
    ELSE [g EXCEPT !.curCol = @ + 1]

Abs(n) == IF n < 0 THEN -n ELSE n

\* US, row, col and SO
costUS == 4

\* the four loops of the relative move, one after the other; st holds the
\* driver, dr, dc and the tracked cursor
RECURSIVE gotoCellRelative(_)
gotoCellRelative(st) ==
    IF st.dr > 0
    THEN gotoCellRelative([st EXCEPT !.d = writeRaw(@, C_LF), !.dr = @ - 1,
                                     !.curRow = IF @ < CELL_ROWS THEN @ + 1 ELSE @])
    ELSE IF st.dr < 0
    THEN gotoCellRelative([st EXCEPT !.d = writeRaw(@, C_VT), !.dr = @ + 1,
                                     !.curRow = IF @ > 1 THEN @ - 1 ELSE @])
    ELSE IF st.dc > 0
    THEN gotoCellRelative([st EXCEPT !.d = writeRaw(@, C_HT), !.dc = @ - 1,
                                     !.curCol = IF @ < CELL_COLS THEN @ + 1 ELSE @])
    ELSE IF st.dc < 0
    THEN gotoCellRelative([st EXCEPT !.d = writeRaw(@, C_BS), !.dc = @ + 1,
                                     !.curCol = IF @ > 1 THEN @ - 1 ELSE @])
    ELSE st

\* mutant: the relative move is taken up to one byte more than the absolute
gotoCellLongerWalk(gd, row0, col0) ==
    LET g == gd.g
        d == gd.d
        r1 == IF row0 < 1 THEN 1 ELSE row0
        row == IF r1 > CELL_ROWS THEN CELL_ROWS ELSE r1
        c1 == IF col0 < 1 THEN 1 ELSE col0
        col == IF c1 > CELL_COLS THEN CELL_COLS ELSE c1
        dr == row - g.curRow
        dc == col - g.curCol
        costRelative == Abs(dr) + Abs(dc)
    IN IF ~g.hasCursor
       THEN [g |-> [g EXCEPT !.curRow = row, !.curCol = col, !.hasCursor = TRUE],
             d |-> beginSemiGraphics(setCursor(d, row, col))]
       ELSE IF costRelative <= costUS + 1
       THEN LET st == gotoCellRelative([d |-> d, dr |-> dr, dc |-> dc,
                                        curRow |-> g.curRow, curCol |-> g.curCol])
            IN [g |-> [g EXCEPT !.curRow = row, !.curCol = col], d |-> st.d]
       ELSE [g |-> [g EXCEPT !.curRow = row, !.curCol = col],
             d |-> beginSemiGraphics(setCursor(d, row, col))]

gotoCell(gd, row0, col0) ==
    LET g == gd.g
        d == gd.d
        r1 == IF row0 < 1 THEN 1 ELSE row0
        row == IF r1 > CELL_ROWS THEN CELL_ROWS ELSE r1
        c1 == IF col0 < 1 THEN 1 ELSE col0
        col == IF c1 > CELL_COLS THEN CELL_COLS ELSE c1
        dr == row - g.curRow
        dc == col - g.curCol
        costRelative == Abs(dr) + Abs(dc)
    IN IF ~g.hasCursor
       THEN [g |-> [g EXCEPT !.curRow = row, !.curCol = col, !.hasCursor = TRUE],
             d |-> beginSemiGraphics(setCursor(d, row, col))]
       ELSE IF costRelative <= costUS
       THEN LET st == gotoCellRelative([d |-> d, dr |-> dr, dc |-> dc,
                                        curRow |-> g.curRow, curCol |-> g.curCol])
            IN [g |-> [g EXCEPT !.curRow = row, !.curCol = col], d |-> st.d]
       ELSE [g |-> [g EXCEPT !.curRow = row, !.curCol = col],
             d |-> beginSemiGraphics(setCursor(d, row, col))]

\* mutant: the cell is printed whether it has changed or not
updateCellOnScreenAlways(gd, col, row) ==
    IF gd.g.drawMode # "Immediate" THEN gd
    ELSE IF col >= CELL_COLS \/ row >= CELL_ROWS THEN gd
    ELSE LET k == charIndex(col, row)
             mask == gd.g.cellMask[k]
             at == gotoCell(gd, U8(row + 1), U8(col + 1))
             d1 == putSemiGraphic(beginSemiGraphics(at.d), maskToG1(mask))
         IN [g |-> [advanceCursorAfterPrint(at.g) EXCEPT !.lastCellMask[k] = mask],
             d |-> d1]

updateCellOnScreen(gd, col, row) ==
    IF gd.g.drawMode # "Immediate" THEN gd
    ELSE IF col >= CELL_COLS \/ row >= CELL_ROWS THEN gd
    ELSE LET k == charIndex(col, row)
             mask == gd.g.cellMask[k]
         IN IF mask = gd.g.lastCellMask[k] THEN gd
            ELSE LET at == gotoCell(gd, U8(row + 1), U8(col + 1))
                     d1 == putSemiGraphic(beginSemiGraphics(at.d), maskToG1(mask))
                 IN [g |-> [advanceCursorAfterPrint(at.g) EXCEPT !.lastCellMask[k] = mask],
                     d |-> d1]

drawPixel(gd, x, y, on) ==
    IF x < 0 \/ x >= PIXEL_COLS \/ y < 0 \/ y >= PIXEL_ROWS THEN gd
    ELSE LET col == x \div 2
             row == y \div 3
             subIdx == subPixelIndexInChar(x % 2, y % 3)
             g1 == setSubPixelByChar(gd.g, col, row, subIdx, on)
         IN IF g1.drawMode = "Immediate"
            THEN updateCellOnScreen([g |-> g1, d |-> gd.d], col, row)
            ELSE [g |-> g1, d |-> gd.d]

\* Loops are run by halves: the iterations lo..hi of a loop are the
\* iterations lo..mid and then the iterations mid+1..hi. An argument of an
\* operator is evaluated where it is first used, so a loop asks for the
\* state its first half leaves before it starts the second half.
Evaluated(st) == DOMAIN st = DOMAIN st

\* one iteration of the loop of drawLine; st holds the variables the loop
\* changes: the pair gd, x0, y0, err, and returned, which tells whether the
\* loop has reached its break
drawLineStep(st, x1, y1, dx, sx, dy, sy, on) ==
    IF st.returned THEN st
    ELSE LET gd1 == drawPixel(st.gd, st.x0, st.y0, on)
             e2 == 2 * st.err
             stepX == e2 >= dy
             err1 == IF stepX THEN st.err + dy ELSE st.err
             stepY == e2 <= dx
         IN IF st.x0 = x1 /\ st.y0 = y1
            THEN [st EXCEPT !.gd = gd1, !.returned = TRUE]
            ELSE [gd |-> gd1,
                  x0 |-> IF stepX THEN st.x0 + sx ELSE st.x0,
                  y0 |-> IF stepY THEN st.y0 + sy ELSE st.y0,
                  err |-> IF stepY THEN err1 + dx ELSE err1,
                  returned |-> FALSE]

\* at most n iterations of the loop of drawLine
RECURSIVE drawLineLoop(_, _, _, _, _, _, _, _, _)
drawLineLoop(st, x1, y1, dx, sx, dy, sy, on, n) ==
    IF n = 1 THEN drawLineStep(st, x1, y1, dx, sx, dy, sy, on)
    ELSE LET half == drawLineLoop(st, x1, y1, dx, sx, dy, sy, on, n \div 2)
         IN IF half.returned THEN half
            ELSE drawLineLoop(half, x1, y1, dx, sx, dy, sy, on, n - (n \div 2))

\* the loop of drawLine gets one pixel closer to (x1, y1) in x or in y at
\* every iteration if it ends at all, so for two points of the grid it is
\* run for at most PIXEL_COLS + PIXEL_ROWS iterations; returned tells
\* whether it has ended by then
\* mutant: the x step points away from x1
drawLineWrongWay(gd, x0, y0, x1, y1, on) ==
    LET dx == Abs(x1 - x0)
        sx == IF x0 < x1 THEN -1 ELSE 1
        dy == -Abs(y1 - y0)
        sy == IF y0 < y1 THEN 1 ELSE -1
        st == drawLineLoop([gd |-> gd, x0 |-> x0, y0 |-> y0, err |-> dx + dy,
                            returned |-> FALSE],
                           x1, y1, dx, sx, dy, sy, on, PIXEL_COLS + PIXEL_ROWS)
    IN [g |-> st.gd.g, d |-> st.gd.d, returned |-> st.returned]

drawLine(gd, x0, y0, x1, y1, on) ==
    LET dx == Abs(x1 - x0)
        sx == IF x0 < x1 THEN 1 ELSE -1
        dy == -Abs(y1 - y0)
        sy == IF y0 < y1 THEN 1 ELSE -1
        st == drawLineLoop([gd |-> gd, x0 |-> x0, y0 |-> y0, err |-> dx + dy,
                            returned |-> FALSE],
                           x1, y1, dx, sx, dy, sy, on, PIXEL_COLS + PIXEL_ROWS)
    IN [g |-> st.gd.g, d |-> st.gd.d, returned |-> st.returned]

\* the lines yy = lo..hi of a filled drawRect
RECURSIVE drawRectFill(_, _, _, _, _, _)
drawRectFill(gd, x, x2, lo, hi, on) ==
    IF lo > hi THEN gd
    ELSE IF lo = hi
    THEN LET r == drawLine(gd, x, lo, x2, lo, on) IN [g |-> r.g, d |-> r.d]
    ELSE LET mid == (lo + hi) \div 2
             half == drawRectFill(gd, x, x2, lo, mid, on)
         IN IF Evaluated(half) THEN drawRectFill(half, x, x2, mid + 1, hi, on) ELSE half

drawRect(gd, x, y, w, h, filled, on) ==
    IF w <= 0 \/ h <= 0 THEN gd
    ELSE LET x2 == x + w - 1
             y2 == y + h - 1
         IN IF filled THEN drawRectFill(gd, x, x2, y, y2, on)
            ELSE LET r1 == drawLine(gd, x, y, x2, y, on)
                     r2 == drawLine([g |-> r1.g, d |-> r1.d], x, y2, x2, y2, on)
                     r3 == drawLine([g |-> r2.g, d |-> r2.d], x, y, x, y2, on)
                     r4 == drawLine([g |-> r3.g, d |-> r3.d], x2, y, x2, y2, on)
                 IN [g |-> r4.g, d |-> r4.d]

\* mutant: the shadows are left as they are
clearKeepsShadow(gd, updateScreen) ==
    LET g1 == [gd.g EXCEPT !.cellMask = [k \in 0..(NUM_CELLS - 1) |-> 0],
                           !.cellColor = [k \in 0..(NUM_CELLS - 1) |-> White],
                           !.hasCursor = FALSE,
                           !.curRow = 1,
                           !.curCol = 1]
    IN IF updateScreen
       THEN [g |-> [g1 EXCEPT !.termFgColor = White], d |-> home(clearScreen(gd.d))]
       ELSE [g |-> g1, d |-> gd.d]

clear(gd, updateScreen) ==
    LET g1 == [gd.g EXCEPT !.cellMask = [k \in 0..(NUM_CELLS - 1) |-> 0],
                           !.lastCellMask = [k \in 0..(NUM_CELLS - 1) |-> 0],
                           !.cellColor = [k \in 0..(NUM_CELLS - 1) |-> White],
                           !.lastCellColor = [k \in 0..(NUM_CELLS - 1) |-> White],
                           !.hasCursor = FALSE,
                           !.curRow = 1,
                           !.curCol = 1]
    IN IF updateScreen
       THEN [g |-> [g1 EXCEPT !.termFgColor = White], d |-> home(clearScreen(gd.d))]
       ELSE [g |-> g1, d |-> gd.d]

setCharColor(d, c) == writeRaw(writeRaw(d, C_ESC), 64 + (c % 8))

REP_THRESHOLD == 4
\* the longest run of equal cells, and the longest chunk of a run
MAX_RUN == 64

\* putSemiGraphic(code), n times
RECURSIVE putSemiGraphics(_, _, _)
putSemiGraphics(d, code, n) ==
    IF n = 0 THEN d ELSE putSemiGraphics(putSemiGraphic(d, code), code, n - 1)

\* mutant: the count byte counts the cells of the chunk, not the repeats
RECURSIVE emitRunCountsCells(_, _, _)
emitRunCountsCells(d, code, len) ==
    IF len = 0 THEN d
    ELSE LET chunk == IF len > MAX_RUN THEN MAX_RUN ELSE len
             countByte == U8(64 + chunk)
             d1 == IF chunk < REP_THRESHOLD
                   THEN putSemiGraphics(d, code, chunk)
                   ELSE writeRaw(writeRaw(putSemiGraphic(d, code), C_REP), countByte)
         IN emitRunCountsCells(d1, code, len - chunk)

\* while (len > 0) of flushRun and flushSegment
RECURSIVE emitRun(_, _, _)
emitRun(d, code, len) ==
    IF len = 0 THEN d
    ELSE LET chunk == IF len > MAX_RUN THEN MAX_RUN ELSE len
             repeats == U8(chunk - 1)
             countByte == U8(64 + repeats)
             d1 == IF chunk < REP_THRESHOLD
                   THEN putSemiGraphics(d, code, chunk)
                   ELSE writeRaw(writeRaw(putSemiGraphic(d, code), C_REP), countByte)
         IN emitRun(d1, code, len - chunk)

\* the colour change before a run
runColor(gd, colorIdx) ==
    IF colorIdx # gd.g.termFgColor
    THEN [g |-> [gd.g EXCEPT !.termFgColor = colorIdx], d |-> setCharColor(gd.d, colorIdx)]
    ELSE gd

\* flushRun of the full redraw
flushRun(gd, code, len, colorIdx) ==
    IF len = 0 THEN gd
    ELSE LET c == runColor(gd, colorIdx)
         IN [g |-> c.g, d |-> emitRun(c.d, code, len)]

\* one iteration of the column loop of the full redraw; st holds the pair
\* gd and the variables of the run
fullCell(st, row, col) ==
    LET k == charIndex(col, row)
        code == maskToG1(st.gd.g.cellMask[k])
        clr == st.gd.g.cellColor[k]
    IN IF st.runLen = 0
       THEN [st EXCEPT !.runCode = code, !.runLen = 1, !.runColorIdx = clr]
       ELSE IF code = st.runCode /\ clr = st.runColorIdx /\ st.runLen < MAX_RUN
       THEN [st EXCEPT !.runLen = @ + 1]
       ELSE [gd |-> flushRun(st.gd, st.runCode, st.runLen, st.runColorIdx),
             runCode |-> code, runLen |-> 1, runColorIdx |-> clr]

\* the iterations col = lo..hi of the column loop of the full redraw
RECURSIVE fullCols(_, _, _, _)
fullCols(st, row, lo, hi) ==
    IF lo = hi THEN fullCell(st, row, lo)
    ELSE LET mid == (lo + hi) \div 2
             half == fullCols(st, row, lo, mid)
         IN IF Evaluated(half) THEN fullCols(half, row, mid + 1, hi) ELSE half

\* one iteration of the row loop of the full redraw
fullRow(gd, row) ==
    LET d1 == beginSemiGraphics(setCursor(gd.d, U8(row + 1), 1))
        st == fullCols([gd |-> [g |-> gd.g, d |-> d1], runCode |-> 0, runLen |-> 0,
                        runColorIdx |-> gd.g.termFgColor],
                       row, 0, CELL_COLS - 1)
        r == flushRun(st.gd, st.runCode, st.runLen, st.runColorIdx)
    IN [g |-> r.g, d |-> endSemiGraphics(r.d)]

\* the iterations row = lo..hi of the row loop of the full redraw
RECURSIVE fullRows(_, _, _)
fullRows(gd, lo, hi) ==
    IF lo = hi THEN fullRow(gd, lo)
    ELSE LET mid == (lo + hi) \div 2
             half == fullRows(gd, lo, mid)
         IN IF Evaluated(half) THEN fullRows(half, mid + 1, hi) ELSE half

\* the variables of one row of the optimized diff
Segment0(gd, anyChange) ==
    [gd |-> gd, anyChange |-> anyChange, inSegment |-> FALSE, segStartCol |-> 0,
     runCode |-> 0, runLen |-> 0, runColorIdx |-> gd.g.termFgColor]

flushSegment(st, row) ==
    IF ~st.inSegment \/ st.runLen = 0 THEN st
    ELSE LET d1 == beginSemiGraphics(setCursor(st.gd.d, U8(row + 1), U8(st.segStartCol + 1)))
             c == runColor([g |-> st.gd.g, d |-> d1], st.runColorIdx)
         IN [st EXCEPT !.anyChange = TRUE,
                       !.gd = [g |-> c.g, d |-> emitRun(c.d, st.runCode, st.runLen)],
                       !.inSegment = FALSE,
                       !.runLen = 0]

\* one iteration of the column loop of the optimized diff
diffCell(st, row, col) ==
    LET k == charIndex(col, row)
        curMask == st.gd.g.cellMask[k]
        curCol == st.gd.g.cellColor[k]
        changed == curMask # st.gd.g.lastCellMask[k] \/ curCol # st.gd.g.lastCellColor[k]
        code == maskToG1(curMask)
        start(t) == [t EXCEPT !.inSegment = TRUE, !.segStartCol = col,
                              !.runCode = code, !.runLen = 1, !.runColorIdx = curCol]
    IN IF ~changed
       THEN (IF st.inSegment THEN flushSegment(st, row) ELSE st)
       ELSE IF ~st.inSegment
       THEN start(st)
       ELSE IF code = st.runCode /\ curCol = st.runColorIdx /\ st.runLen < MAX_RUN
       THEN [st EXCEPT !.runLen = @ + 1]
       ELSE start(flushSegment(st, row))

\* the iterations col = lo..hi of the column loop of the optimized diff
RECURSIVE diffCols(_, _, _, _)
diffCols(st, row, lo, hi) ==
    IF lo = hi THEN diffCell(st, row, lo)
    ELSE LET mid == (lo + hi) \div 2
             half == diffCols(st, row, lo, mid)
         IN IF Evaluated(half) THEN diffCols(half, row, mid + 1, hi) ELSE half

\* one iteration of the row loop of the optimized diff; r holds the pair gd
\* and anyChange
diffRow(r, row) ==
    LET st == flushSegment(diffCols(Segment0(r.gd, r.anyChange), row, 0, CELL_COLS - 1), row)
    IN [gd |-> st.gd, anyChange |-> st.anyChange]

\* the iterations row = lo..hi of the row loop of the optimized diff
RECURSIVE diffRows(_, _, _)
diffRows(r, lo, hi) ==
    IF lo = hi THEN diffRow(r, lo)
    ELSE LET mid == (lo + hi) \div 2
             half == diffRows(r, lo, mid)
         IN IF Evaluated(half) THEN diffRows(half, mid + 1, hi) ELSE half

\* mutant: only the masks are copied
syncLastBuffersMaskOnly(g) == [g EXCEPT !.lastCellMask = g.cellMask]

syncLastBuffers(g) == [g EXCEPT !.lastCellMask = g.cellMask, !.lastCellColor = g.cellColor]

\* mutant: the diff stays in G1 at its end
flushStaysInG1(gd, mode) ==
    LET g0 == [gd.g EXCEPT !.hasCursor = FALSE] IN
    IF mode = "FullRedraw"
    THEN LET r == fullRows([g |-> [g0 EXCEPT !.termFgColor = g0.drawColor], d |-> gd.d],
                           0, CELL_ROWS - 1)
         IN [g |-> syncLastBuffers(r.g), d |-> r.d]
    ELSE LET r == diffRows([gd |-> [g |-> g0, d |-> gd.d], anyChange |-> FALSE],
                           0, CELL_ROWS - 1)
         IN [g |-> syncLastBuffers(r.gd.g), d |-> r.gd.d]

flush(gd, mode) ==
    LET g0 == [gd.g EXCEPT !.hasCursor = FALSE] IN
    IF mode = "FullRedraw"
    THEN LET r == fullRows([g |-> [g0 EXCEPT !.termFgColor = g0.drawColor], d |-> gd.d],
                           0, CELL_ROWS - 1)
         IN [g |-> syncLastBuffers(r.g), d |-> r.d]
    ELSE LET r == diffRows([gd |-> [g |-> g0, d |-> gd.d], anyChange |-> FALSE],
                           0, CELL_ROWS - 1)
         IN [g |-> syncLastBuffers(r.gd.g),
             d |-> IF r.anyChange THEN endSemiGraphics(r.gd.d) ELSE r.gd.d]

setDrawMode(g, mode) == [g EXCEPT !.drawMode = mode]
setDrawColor(g, c) == [g EXCEPT !.drawColor = c]

(***************************************************************************)
(* State                                                                   *)
(***************************************************************************)
VARIABLES
    drv,       \* the Minitel object
    now,       \* millis()
    inLog,     \* history: the bytes handed to parseByte, in order
    pushAt,    \* history: for each pushEvent call of the parser, the index in inLog of the byte being parsed
    readLog,   \* history: the events readEvent returned, in order
    pushLog,   \* history: the events handed to pushEvent directly (SpecFifo), in order
    maxUnread, \* history: the largest number of pushed and not yet read events so far (SpecFifo)
    polls,     \* history: number of poll calls
    calls,     \* history: number of transaction / session calls
    ticks,     \* history: number of clock advances
    call,      \* history: the last call of the TX interface: its name, arguments, result, and the driver before it
    gfx        \* the MinitelGfx object drawing through drv, NoGfx where the program constructs none

vars == <<drv, now, inLog, pushAt, readLog, pushLog, maxUnread, polls, calls, ticks, call, gfx>>

\* no call of the TX interface was made yet
NoCall == [op |-> "none", args |-> <<>>, ret |-> <<>>, pre |-> Minitel0]

Init ==
    /\ drv = Minitel0
    /\ now = MkTime(0, 0)
    /\ inLog = <<>>
    /\ pushAt = <<>>
    /\ readLog = <<>>
    /\ pushLog = <<>>
    /\ maxUnread = 0
    /\ polls = 0
    /\ calls = 0
    /\ ticks = 0
    /\ call = NoCall
    /\ gfx = NoGfx

\* the events successive readEvent calls would return, until it returns false
RECURSIVE Drain(_)
Drain(d) ==
    LET r == readEvent(d) IN
    IF r.ok THEN <<r.ev>> \o Drain(r.d) ELSE <<>>

\* history of the parser's pushEvent calls while `bytes` are parsed
RECURSIVE PushAtAll(_, _, _, _, _)
PushAtAll(d, bytes, junk, millis, at) ==
    IF bytes = <<>> THEN <<>>
    ELSE LET d1 == parseByte(d, Head(bytes), junk, millis) IN
         [k \in 1..(d1.evCount - d.evCount) |-> at]
           \o PushAtAll(d1, Tail(bytes), junk, millis, at + 1)

(***************************************************************************)
(* Actions of SpecParser: the parser fed byte by byte                      *)
(***************************************************************************)
\* the bytes the terminal sends in the behaviours explored:
\* SEP with the parity bit set, ESC, 0x3B (';'), 'T' (SEP 5/4) with the parity bit set
InBytes == {147, 27, 59, 212}

\* one parseByte call (one iteration of poll's loop)
ParseByte(b) ==
    /\ Len(inLog) < MaxInput
    /\ \E junk \in StackResidue :
          /\ drv' = parseByte(drv, b, junk, now)
          /\ pushAt' = pushAt \o PushAtAll(drv, <<b>>, junk, now, Len(inLog) + 1)
    /\ inLog' = Append(inLog, b)
    /\ UNCHANGED <<now, readLog, pushLog, maxUnread, polls, calls, ticks, call, gfx>>

NextParser == \E b \in InBytes : ParseByte(b)

SpecParser == Init /\ [][NextParser]_vars

(***************************************************************************)
(* Actions of Spec: the parser fed byte by byte, and the consumer popping  *)
(* events at any moment                                                    *)
(***************************************************************************)
ReadEvent ==
    LET r == readEvent(drv) IN
    /\ drv' = r.d
    /\ readLog' = IF r.ok THEN Append(readLog, r.ev) ELSE readLog
    /\ UNCHANGED <<now, inLog, pushAt, pushLog, maxUnread, polls, calls, ticks, call, gfx>>

Next ==
    \/ \E b \in InBytes : ParseByte(b)
    \/ ReadEvent

Spec == Init /\ [][Next]_vars

(***************************************************************************)
(* Actions of SpecFifo: pushEvent and readEvent in any interleaving        *)
(***************************************************************************)
\* the n-th event pushed: a CHAR whose code tells it from all the others
NthEvent(n) == MkEvent("CHAR", 32 + n, 0, 0, 0, ZeroData)

PushEvent ==
    /\ Len(pushLog) < MaxPush
    /\ LET ev == NthEvent(Len(pushLog)) IN
          /\ drv' = pushEvent(drv, ev)
          /\ pushLog' = Append(pushLog, ev)
    /\ maxUnread' = IF Len(pushLog') - Len(readLog) > maxUnread
                    THEN Len(pushLog') - Len(readLog)
                    ELSE maxUnread
    /\ UNCHANGED <<now, inLog, pushAt, readLog, polls, calls, ticks, call, gfx>>

NextFifo ==
    \/ PushEvent
    \/ ReadEvent

SpecFifo == Init /\ [][NextFifo]_vars

(***************************************************************************)
(* Actions of SpecTx: poll, the transaction, the session and the clock     *)
(***************************************************************************)
\* what the stream holds when poll is called: nothing; SEP (parity set);
\* 'T' = 5/4 (parity set); ESC 0x3B
PollInputs == { <<>>, <<147>>, <<212>>, <<27, 59>> }

\* the clock may start anywhere; the second value is 300 ms before it wraps
ClockStarts == { MkTime(0, 0), MkTime(65535, 65236) }

\* the beginTransactionWaitSep calls explored: wait for SEP 5/4 for 500 ms,
\* wait for SEP 4/1 (ENVOI) without timeout
BeginArgs == { <<5, 4, 500>>, <<4, 1, 0>> }

InitTx ==
    /\ drv = Minitel0
    /\ now \in ClockStarts
    /\ inLog = <<>>
    /\ pushAt = <<>>
    /\ readLog = <<>>
    /\ pushLog = <<>>
    /\ maxUnread = 0
    /\ polls = 0
    /\ calls = 0
    /\ ticks = 0
    /\ call = NoCall
    /\ gfx = NoGfx

Poll(bytes) ==
    /\ polls < MaxPolls
    /\ \E junk \in StackResidue :
          /\ drv' = poll(drv, bytes, junk, now)
          /\ pushAt' = pushAt \o PushAtAll(drv, bytes, junk, now, Len(inLog) + 1)
    /\ inLog' = inLog \o bytes
    /\ polls' = polls + 1
    /\ UNCHANGED <<now, readLog, pushLog, maxUnread, calls, ticks, call, gfx>>

BeginTransactionWaitSep(row, col, timeoutMs) ==
    /\ calls < MaxCalls
    /\ drv' = beginTransactionWaitSep(drv, row, col, timeoutMs, now)
    /\ calls' = calls + 1
    /\ UNCHANGED <<now, inLog, pushAt, readLog, pushLog, maxUnread, polls, ticks, call, gfx>>

StartSessionNoWait ==
    /\ calls < MaxCalls
    /\ drv' = startSessionNoWait(drv, now)
    /\ calls' = calls + 1
    /\ UNCHANGED <<now, inLog, pushAt, readLog, pushLog, maxUnread, polls, ticks, call, gfx>>

Tick(dt) ==
    /\ ticks < MaxTicks
    /\ now' = TimeAdd(now, dt)
    /\ ticks' = ticks + 1
    /\ UNCHANGED <<drv, inLog, pushAt, readLog, pushLog, maxUnread, polls, calls, call, gfx>>

NextTx ==
    \/ \E bytes \in PollInputs : Poll(bytes)
    \/ \E a \in BeginArgs : BeginTransactionWaitSep(a[1], a[2], a[3])
    \/ StartSessionNoWait
    \/ \E dt \in {400} : Tick(dt)

SpecTx == InitTx /\ [][NextTx]_vars

(***************************************************************************)
(* Actions of SpecClock: one transaction, the clock and poll with nothing  *)
(* to read                                                                 *)
(***************************************************************************)
\* the timeoutMs arguments explored: none, half a second, the largest uint16_t
Timeouts == {0, 500, 65535}

\* the times that pass between two calls: 1 ms, exactly and just over the
\* half second, and 100 ms more than 65536 ms
Gaps == {1, 500, 501, 65636}

NextClock ==
    \/ \E t \in Timeouts : BeginTransactionWaitSep(5, 4, t)
    \/ \E dt \in Gaps : Tick(dt)
    \/ Poll(<<>>)

SpecClock == InitTx /\ [][NextClock]_vars

\* A program that begins transactions waiting for SEP 5/4 and polls, before
\* and after the half second of the timeout, with or without the SEP.
OutcomeInputs == { <<>>, <<147>>, <<212>>, <<147, 212>> }

NextOutcome ==
    \/ \E bytes \in OutcomeInputs : Poll(bytes)
    \/ BeginTransactionWaitSep(5, 4, 500)
    \/ \E dt \in {1, 501} : Tick(dt)

SpecOutcome == InitTx /\ [][NextOutcome]_vars

(***************************************************************************)
(* Actions of SpecScreen: the calls of the TX interface, in any order      *)
(***************************************************************************)
\* one call of the TX interface that takes the driver to d2
TxCall(op, args, ret, d2) ==
    /\ calls < MaxCalls
    /\ drv' = d2
    /\ call' = [op |-> op, args |-> args, ret |-> ret, pre |-> drv]
    /\ calls' = calls + 1
    /\ UNCHANGED <<now, readLog, pushLog, maxUnread, polls, ticks, gfx>>

\* (row, col) arguments: below, at the ends of, and above the screen
CursorArgs == { <<0, 0>>, <<1, 1>>, <<24, 40>>, <<255, 255>> }

\* single bytes handed to writeRaw, putChar and putSemiGraphic: 'A', a G1
\* glyph with bit 7 set, SO, SI
DataBytes == {65, 161, 14, 15}

\* strings handed to print, printSemiGraphics and printRow0: one 'A', five
\* 'A', a run of four inside other letters, a string that holds SO
Strings == { <<65>>, <<65, 65, 65, 65, 65>>, <<65, 66, 66, 66, 66, 67>>, <<66, 14>> }

\* what the terminal sends back to requestCursorPosition: nothing, the
\* position report US row col, two letters only
Replies == { <<>>, <<31, 66, 67>>, <<66, 67>> }

Quiet == UNCHANGED <<inLog, pushAt>>

ClearScreen == TxCall("clearScreen", <<>>, <<>>, clearScreen(drv)) /\ Quiet
Home == TxCall("home", <<>>, <<>>, home(drv)) /\ Quiet
SetCursor(row, col) == TxCall("setCursor", <<row, col>>, <<>>, setCursor(drv, row, col)) /\ Quiet
SetCursorRow0(col) == TxCall("setCursorRow0", <<col>>, <<>>, setCursorRow0(drv, col)) /\ Quiet
PutChar(c) == TxCall("putChar", <<c>>, <<>>, putChar(drv, c)) /\ Quiet
DoPrint(str) == TxCall("print", <<str>>, <<>>, print(drv, str)) /\ Quiet
DoPrintRow0(str) == TxCall("printRow0", <<str>>, <<>>, printRow0(drv, str)) /\ Quiet
DoPrintSemiGraphics(str) == TxCall("printSemiGraphics", <<str>>, <<>>, printSemiGraphics(drv, str)) /\ Quiet
PutSemiGraphic(code) == TxCall("putSemiGraphic", <<code>>, <<>>, putSemiGraphic(drv, code)) /\ Quiet
BeginSemiGraphics == TxCall("beginSemiGraphics", <<>>, <<>>, beginSemiGraphics(drv)) /\ Quiet
EndSemiGraphics == TxCall("endSemiGraphics", <<>>, <<>>, endSemiGraphics(drv)) /\ Quiet
WriteRaw(b) == TxCall("writeRaw", <<b>>, <<>>, writeRaw(drv, b)) /\ Quiet

\* requestCursorPosition(outRow, outCol, 1000) with outRow = outCol = 0
RequestCursorPosition(reply) ==
    \E junk \in StackResidue :
       LET r == requestCursorPosition(drv, 0, 0, 1000, reply, junk, now) IN
       /\ TxCall("requestCursorPosition", <<reply>>, <<r.ok, r.outRow, r.outCol>>, r.d)
       /\ inLog' = inLog \o reply
       /\ pushAt' = pushAt \o PushAtAll(drv, reply, junk, now, Len(inLog) + 1)

NextScreen ==
    \/ ClearScreen
    \/ Home
    \/ \E a \in CursorArgs : SetCursor(a[1], a[2])
    \/ \E col \in {0, 40} : SetCursorRow0(col)
    \/ \E c \in DataBytes : PutChar(c)
    \/ \E str \in Strings : DoPrint(str)
    \/ \E str \in Strings : DoPrintRow0(str)
    \/ \E str \in Strings : DoPrintSemiGraphics(str)
    \/ \E code \in DataBytes : PutSemiGraphic(code)
    \/ BeginSemiGraphics
    \/ EndSemiGraphics
    \/ \E b \in DataBytes : WriteRaw(b)
    \/ \E reply \in Replies : RequestCursorPosition(reply)

SpecScreen == Init /\ [][NextScreen]_vars

(***************************************************************************)
(* Actions of SpecCursor: setCursor(row, col) for every pair of uint8_t    *)
(* arguments, called once, in either character set                         *)
(***************************************************************************)
\* bytes written before the setCursor call
MaxOut == 1

\* the arguments of the setCursor call to come are chosen at the start
InitCursor ==
    /\ drv = Minitel0
    /\ now = MkTime(0, 0)
    /\ inLog = <<>>
    /\ pushAt = <<>>
    /\ readLog = <<>>
    /\ pushLog = <<>>
    /\ maxUnread = 0
    /\ polls = 0
    /\ calls = 0
    /\ ticks = 0
    /\ \E row \in Byte : \E col \in Byte :
          call = [NoCall EXCEPT !.args = <<row, col>>]
    /\ gfx = NoGfx

\* beginSemiGraphics or endSemiGraphics, whichever writes, before the call
ShiftBefore ==
    /\ call.op = "none"
    /\ Len(drv.out) < MaxOut
    /\ drv' = IF drv.currentSet = "G0_ALPHA"
              THEN beginSemiGraphics(drv)
              ELSE endSemiGraphics(drv)
    /\ UNCHANGED <<now, inLog, pushAt, readLog, pushLog, maxUnread, polls, calls, ticks, call, gfx>>

\* the setCursor call
SetCursorOnce ==
    /\ call.op = "none"
    /\ drv' = setCursor(drv, call.args[1], call.args[2])
    /\ call' = [call EXCEPT !.op = "setCursor", !.pre = drv]
    /\ UNCHANGED <<now, inLog, pushAt, readLog, pushLog, maxUnread, polls, calls, ticks, gfx>>

NextCursor ==
    \/ ShiftBefore
    \/ SetCursorOnce

SpecCursor == InitCursor /\ [][NextCursor]_vars

(***************************************************************************)
(* Actions of SpecPixel: one drawPixel(x, y, on) call, for arguments on    *)
(* and around the whole pixel grid, after some preparation                 *)
(***************************************************************************)
\* calls made before the drawPixel call
MaxPrep == 1

\* x and y of the call: every column of the top and bottom rows, every row
\* of the left and right columns, one pixel beyond every edge, and the six
\* pixels of a cell in the middle
PixelArgs ==
    ((-1..PIXEL_COLS) \X {-1, 0, PIXEL_ROWS - 1, PIXEL_ROWS})
       \cup ({-1, 0, PIXEL_COLS - 1, PIXEL_COLS} \X (-1..PIXEL_ROWS))
       \cup ({40, 41} \X {36, 37, 38})

\* the arguments of the drawPixel call to come are chosen at the start
InitPixel ==
    /\ drv = Minitel0
    /\ now = MkTime(0, 0)
    /\ inLog = <<>>
    /\ pushAt = <<>>
    /\ readLog = <<>>
    /\ pushLog = <<>>
    /\ maxUnread = 0
    /\ polls = 0
    /\ calls = 0
    /\ ticks = 0
    /\ \E xy \in PixelArgs : \E on \in BOOLEAN :
          call = [NoCall EXCEPT !.args = <<xy[1], xy[2], on>>]
    /\ gfx = Gfx0

\* a call made before the drawPixel call
Prepare(g2, d2) ==
    /\ call.op = "none"
    /\ calls < MaxPrep
    /\ gfx' = g2
    /\ drv' = d2
    /\ calls' = calls + 1
    /\ UNCHANGED <<now, inLog, pushAt, readLog, pushLog, maxUnread, polls, ticks, call>>

SetDrawColor == Prepare(setDrawColor(gfx, Red), drv)

SetDrawMode == Prepare(setDrawMode(gfx, "Immediate"), drv)

\* drawPixel(0, 0, true)
DrawFirstPixel ==
    LET r == drawPixel([g |-> gfx, d |-> drv], 0, 0, TRUE) IN Prepare(r.g, r.d)

\* the drawPixel call
DrawPixelOnce ==
    /\ call.op = "none"
    /\ LET r == drawPixel([g |-> gfx, d |-> drv], call.args[1], call.args[2], call.args[3]) IN
          /\ gfx' = r.g
          /\ drv' = r.d
    /\ call' = [call EXCEPT !.op = "drawPixel", !.pre = drv]
    /\ UNCHANGED <<now, inLog, pushAt, readLog, pushLog, maxUnread, polls, calls, ticks>>

NextPixel ==
    \/ SetDrawColor
    \/ SetDrawMode
    \/ DrawFirstPixel
    \/ DrawPixelOnce

SpecPixel == InitPixel /\ [][NextPixel]_vars

\* A program that draws one line, after at most MaxPrep other calls.
\* the end points of the line: the corners of the grid and points inside
LinePoints ==
    {<<0, 0>>, <<PIXEL_COLS - 1, 0>>, <<0, PIXEL_ROWS - 1>>, <<PIXEL_COLS - 1, PIXEL_ROWS - 1>>,
     <<40, 36>>, <<41, 38>>, <<3, 70>>, <<78, 2>>}

\* the arguments of the drawLine call to come are chosen at the start
InitLine ==
    /\ drv = Minitel0
    /\ now = MkTime(0, 0)
    /\ inLog = <<>>
    /\ pushAt = <<>>
    /\ readLog = <<>>
    /\ pushLog = <<>>
    /\ maxUnread = 0
    /\ polls = 0
    /\ calls = 0
    /\ ticks = 0
    /\ \E p \in LinePoints : \E q \in LinePoints :
          call = [NoCall EXCEPT !.args = <<p[1], p[2], q[1], q[2], TRUE>>]
    /\ gfx = Gfx0

\* the drawLine call, when it returns
DrawLineOnce ==
    /\ call.op = "none"
    /\ LET r == drawLine([g |-> gfx, d |-> drv], call.args[1], call.args[2],
                         call.args[3], call.args[4], call.args[5]) IN
          /\ r.returned
          /\ gfx' = r.g
          /\ drv' = r.d
    /\ call' = [call EXCEPT !.op = "drawLine", !.pre = drv]
    /\ UNCHANGED <<now, inLog, pushAt, readLog, pushLog, maxUnread, polls, calls, ticks>>

NextLine ==
    \/ SetDrawMode
    \/ DrawFirstPixel
    \/ DrawLineOnce

SpecLine == InitLine /\ [][NextLine]_vars

(***************************************************************************)
(* Actions of SpecFlush: drawing into the framebuffer and flushing it      *)
(***************************************************************************)
\* calls made on the MinitelGfx object
MaxGfxCalls == 3

\* a program with a MinitelGfx object, after its construction
InitGfx ==
    /\ drv = Minitel0
    /\ now = MkTime(0, 0)
    /\ inLog = <<>>
    /\ pushAt = <<>>
    /\ readLog = <<>>
    /\ pushLog = <<>>
    /\ maxUnread = 0
    /\ polls = 0
    /\ calls = 0
    /\ ticks = 0
    /\ call = NoCall
    /\ gfx = Gfx0

\* one call of a member function of MinitelGfx, which leaves the pair r
GfxCall(op, args, r) ==
    /\ calls < MaxGfxCalls
    /\ gfx' = r.g
    /\ drv' = r.d
    /\ call' = [op |-> op, args |-> args, ret |-> <<>>, pre |-> drv]
    /\ calls' = calls + 1
    /\ UNCHANGED <<now, inLog, pushAt, readLog, pushLog, maxUnread, polls, ticks>>

\* the MinitelGfx object and the driver it writes through
Both == [g |-> gfx, d |-> drv]

Clear(updateScreen) == GfxCall("clear", <<updateScreen>>, clear(Both, updateScreen))

SetColor(c) == GfxCall("setDrawColor", <<c>>, [g |-> setDrawColor(gfx, c), d |-> drv])

SetMode(mode) == GfxCall("setDrawMode", <<mode>>, [g |-> setDrawMode(gfx, mode), d |-> drv])

DrawPixel(x, y, on) == GfxCall("drawPixel", <<x, y, on>>, drawPixel(Both, x, y, on))

DrawLine(x0, y0, x1, y1, on) ==
    LET r == drawLine(Both, x0, y0, x1, y1, on)
    IN r.returned /\ GfxCall("drawLine", <<x0, y0, x1, y1, on>>, [g |-> r.g, d |-> r.d])

DrawRect(x, y, w, h, filled, on) ==
    GfxCall("drawRect", <<x, y, w, h, filled, on>>, drawRect(Both, x, y, w, h, filled, on))

Flush(mode) == GfxCall("flush", <<mode>>, flush(Both, mode))

FlushModes == {"FullRedraw", "OptimizedDiff"}

\* the pixels drawn: the first cell, the cell after it, the last cell
FlushPixels == {<<0, 0>>, <<2, 1>>, <<79, 71>>}

NextFlush ==
    \/ \E updateScreen \in BOOLEAN : Clear(updateScreen)
    \/ SetColor(Red)
    \/ \E p \in FlushPixels : DrawPixel(p[1], p[2], TRUE)
    \/ DrawRect(0, 0, 8, 3, TRUE, TRUE)
    \/ \E mode \in FlushModes : Flush(mode)

SpecFlush == InitGfx /\ [][NextFlush]_vars

\* A program that draws pixels one by one in Immediate mode: every pixel
\* drawn moves the cursor with gotoCell and prints the cell.
GotoPixels == {<<16, 12>>, <<22, 12>>, <<20, 18>>, <<78, 0>>, <<78, 69>>, <<0, 36>>}

NextGoto ==
    \/ SetMode("Immediate")
    \/ \E p \in GotoPixels : DrawPixel(p[1], p[2], TRUE)
    \/ Clear(FALSE)

SpecGoto == InitGfx /\ [][NextGoto]_vars

\* A program that uses every operation that draws, in both draw modes.
DrawModes == {"BitmapOnly", "Immediate"}

NextShadow ==
    \/ \E updateScreen \in BOOLEAN : Clear(updateScreen)
    \/ SetColor(Red)
    \/ \E mode \in DrawModes : SetMode(mode)
    \/ \E on \in BOOLEAN : DrawPixel(2, 1, on)
    \/ DrawLine(0, 0, 5, 3, TRUE)
    \/ \E filled \in BOOLEAN : DrawRect(2, 3, 4, 4, filled, TRUE)
    \/ Flush("OptimizedDiff")

SpecShadow == InitGfx /\ [][NextShadow]_vars

\* A program that clears, draws pixels in either draw mode and flushes in
\* either flush mode.
NextDisplay ==
    \/ \E updateScreen \in BOOLEAN : Clear(updateScreen)
    \/ \E mode \in DrawModes : SetMode(mode)
    \/ \E p \in FlushPixels : DrawPixel(p[1], p[2], TRUE)
    \/ \E mode \in FlushModes : Flush(mode)

SpecDisplay == InitGfx /\ [][NextDisplay]_vars

\* A program that calls waitEvent once; the loop of waitEvent is taken one
\* iteration at a time while the clock advances.  `call` holds the timeout
\* and the value of start, and the flag and the event once waitEvent has
\* returned; `polls` counts the iterations since the clock last advanced.
\* The loop has no delay: it iterates at least once every millisecond.
WaitTimeouts == {0, 1, 65535}
\* the clock is followed millisecond by millisecond for MaxWaitMs
\* milliseconds after the call, and from then on half of its range at a
\* time: a loop that is still running then has the timeout 0 or 65535, and
\* its timeout test is false at every millisecond that is passed over
MaxWaitMs == 65537
\* a key is typed in the first MaxArriveMs milliseconds or not at all
MaxArriveMs == 2
WaitInputs == {<<>>, <<65>>}

InWaitEvent == call.op = "waitEvent" /\ call.ret = <<>>
\* more than ms milliseconds have passed since start
WaitedMoreThan(ms) ==
    LET e == Elapsed32(now, call.args[2])
    IN e.hi > ms \div 65536 \/ (e.hi = ms \div 65536 /\ e.lo > ms % 65536)

\* unsigned long start = millis();
WaitEventStart ==
    /\ call.op = "none"
    /\ \E timeoutMs \in WaitTimeouts :
          call' = [op |-> "waitEvent", args |-> <<timeoutMs, now>>, ret |-> <<>>, pre |-> drv]
    /\ polls' = 0
    /\ UNCHANGED <<drv, now, inLog, pushAt, readLog, pushLog, maxUnread, calls, ticks, gfx>>

\* one iteration of while (true); ev is the caller's event, not yet set
WaitEventIteration(bytes, ev) ==
    /\ InWaitEvent
    /\ polls = 0
    /\ bytes # <<>> => inLog = <<>> /\ ~WaitedMoreThan(MaxArriveMs - 1)
    /\ \E junk \in StackResidue :
          LET d1 == poll(drv, bytes, junk, now)
              r == readEvent(d1)
              timeoutMs == call.args[1]
          IN IF eventAvailable(d1) /\ r.ok
             THEN /\ drv' = r.d
                  /\ call' = [call EXCEPT !.ret = <<TRUE, r.ev>>]
                  /\ polls' = 0
             ELSE IF timeoutMs > 0 /\ ElapsedU16(now, call.args[2]) > timeoutMs
             THEN /\ drv' = d1
                  /\ call' = [call EXCEPT !.ret = <<FALSE, [ev EXCEPT !.type = "TIMEOUT"]>>]
                  /\ polls' = 0
             ELSE /\ drv' = d1
                  /\ call' = call
                  /\ polls' = 1
    /\ inLog' = inLog \o bytes
    /\ UNCHANGED <<now, pushAt, readLog, pushLog, maxUnread, calls, ticks, gfx>>

WaitEventLoop == \E bytes \in WaitInputs : WaitEventIteration(bytes, ZeroEvent)

\* the clock advances, and wraps after 2^32 milliseconds
WaitTick ==
    /\ InWaitEvent
    /\ polls = 1
    /\ now' = IF WaitedMoreThan(MaxWaitMs - 1)
              THEN MkTime((now.hi + 2 ^ 15) % 65536, now.lo)
              ELSE TimeAdd(now, 1)
    /\ polls' = 0
    /\ UNCHANGED <<drv, inLog, pushAt, readLog, pushLog, maxUnread, calls, ticks, call, gfx>>

NextWait ==
    \/ WaitEventStart
    \/ WaitEventLoop
    \/ WaitTick

\* the loop goes on unless it returns, and so does the clock
SpecWait == Init /\ [][NextWait]_vars /\ WF_vars(WaitEventLoop) /\ WF_vars(WaitTick)

\* A program that calls startSession(timeoutMs) with timeoutMs > 0 and polls
\* afterwards.  The loop of startSession is taken one step at a time: its
\* test reads millis(), then poll reads millis(), and the clock may advance
\* in between.  `call` holds timeoutMs and start, and the flag once
\* startSession has returned; `polls` is 1 between the test and the poll.
SessionTimeouts == {1, 2}
\* SEP 5/4, SEP 4/1
SessionInputs == {<<>>, <<19, 84>>, <<19, 65>>}
MaxSessionMs == 4
MaxSessionBytes == 4

InStartSession == call.op = "startSession" /\ call.ret = <<>>
StartSessionReturned == call.op = "startSession" /\ call.ret # <<>>

\* startSession up to unsigned long start = millis()
StartSessionCall ==
    /\ call.op = "none"
    /\ \E timeoutMs \in SessionTimeouts :
          /\ drv' = beginTransactionWaitSep(startSessionNoWait(drv, now), 5, 4, timeoutMs, now)
          /\ call' = [op |-> "startSession", args |-> <<timeoutMs, now>>, ret |-> <<>>,
                      pre |-> drv]
    /\ polls' = 0
    /\ UNCHANGED <<now, inLog, pushAt, readLog, pushLog, maxUnread, calls, ticks, gfx>>

\* the test of the while loop, and what follows the loop when it is false
StartSessionTest ==
    /\ InStartSession
    /\ polls = 0
    /\ IF drv.tx.active /\ ElapsedU16(now, call.args[2]) <= call.args[1]
       THEN /\ polls' = 1
            /\ UNCHANGED <<drv, call>>
       ELSE IF ~drv.tx.active /\ drv.tx.success
       THEN /\ drv' = [drv EXCEPT !.sessionState = "Open"]
            /\ call' = [call EXCEPT !.ret = <<TRUE>>]
            /\ polls' = 0
       ELSE /\ drv' = [drv EXCEPT !.sessionState = "Closed"]
            /\ call' = [call EXCEPT !.ret = <<FALSE>>]
            /\ polls' = 0
    /\ UNCHANGED <<now, inLog, pushAt, readLog, pushLog, maxUnread, calls, ticks, gfx>>

\* poll() in the loop, with the bytes received since the last poll
StartSessionPoll(bytes) ==
    /\ InStartSession
    /\ polls = 1
    /\ Len(inLog) + Len(bytes) <= MaxSessionBytes
    /\ \E junk \in StackResidue : drv' = poll(drv, bytes, junk, now)
    /\ inLog' = inLog \o bytes
    /\ polls' = 0
    /\ UNCHANGED <<now, pushAt, readLog, pushLog, maxUnread, calls, ticks, call, gfx>>

\* poll() called by the program after startSession has returned
PollAfterSession(bytes) ==
    /\ StartSessionReturned
    /\ Len(inLog) + Len(bytes) <= MaxSessionBytes
    /\ calls < 1
    /\ \E junk \in StackResidue : drv' = poll(drv, bytes, junk, now)
    /\ inLog' = inLog \o bytes
    /\ calls' = calls + 1
    /\ UNCHANGED <<now, pushAt, readLog, pushLog, maxUnread, polls, ticks, call, gfx>>

\* the next millisecond
SessionTick ==
    /\ ticks < MaxSessionMs
    /\ now' = TimeAdd(now, 1)
    /\ ticks' = ticks + 1
    /\ UNCHANGED <<drv, inLog, pushAt, readLog, pushLog, maxUnread, polls, calls, call, gfx>>

NextSession ==
    \/ StartSessionCall
    \/ StartSessionTest
    \/ \E bytes \in SessionInputs : StartSessionPoll(bytes)
    \/ \E bytes \in SessionInputs : PollAfterSession(bytes)
    \/ SessionTick

SpecSession == Init /\ [][NextSession]_vars

\* A program that calls readLine once, with the keys typed so far in the
\* stream: 'A' (also the second byte of SEP ENVOI), BS, CR and SEP.
MaxTyped == 4
Keys == {65, C_BS, C_CR, C_SEP}
Typed == UNION {[1..n -> Keys] : n \in 0..MaxTyped}
LineSizes == 0..3
LineTimeouts == {0, 150}

\* the arguments of the readLine call to come are chosen at the start
InitReadLine ==
    /\ drv = Minitel0
    /\ now = MkTime(0, 0)
    /\ inLog = <<>>
    /\ pushAt = <<>>
    /\ readLog = <<>>
    /\ pushLog = <<>>
    /\ maxUnread = 0
    /\ polls = 0
    /\ calls = 0
    /\ ticks = 0
    /\ \E bufSize \in LineSizes, echo \in BOOLEAN, stopOnEnvoi \in BOOLEAN,
          timeoutMs \in LineTimeouts, bytes \in Typed :
          call = [NoCall EXCEPT !.args = <<bufSize, echo, stopOnEnvoi, timeoutMs, bytes>>]
    /\ gfx = NoGfx

\* the readLine call, when it returns
ReadLineOnce ==
    /\ call.op = "none"
    /\ \E junk \in StackResidue :
          LET r == readLine(drv, call.args[1], call.args[2], call.args[3], call.args[4],
                            call.args[5], junk, now) IN
             /\ r.returned
             /\ drv' = r.d
             /\ call' = [call EXCEPT !.op = "readLine", !.ret = <<r.ok, r.idx, r.writes>>,
                                     !.pre = drv]
    /\ inLog' = call.args[5]
    /\ UNCHANGED <<now, pushAt, readLog, pushLog, maxUnread, polls, calls, ticks, gfx>>

NextReadLine == ReadLineOnce

SpecReadLine == InitReadLine /\ [][NextReadLine]_vars

(***************************************************************************)
(* Properties                                                              *)
(***************************************************************************)
\* the unread events q2 are the unread events q1 followed by one more event
Appended(q1, q2) ==
    /\ Len(q2) = Len(q1) + 1
    /\ SubSeq(q2, 1, Len(q1)) = q1

\* from d1 to d2 pushEvent was called exactly once: event e went into the
\* free slot at the head of the ring, which was not full, and nothing else
\* (parser, transaction, session, unread events) changed
OneEvent(d1, d2, e) ==
    /\ d2 = [d1 EXCEPT !.eventBuf[d1.eventHead] = e,
                       !.eventHead = (d1.eventHead + 1) % EVENTBUF_SIZE,
                       !.evCount = @ + 1]
    /\ d2.eventHead # d2.eventTail

\* the event in the slot that was free in d1
Stored(d1, d2) == d2.eventBuf[d1.eventHead]

\* an event of type t and code c
Is(e, t, c) == e.type = t /\ e.code = c

ParserIdle(d) == d.escState = "ESC_IDLE" /\ ~d.waitingSepSecond

\* C1: when the parser is idle, parseByte of any byte b does, with c = b & 0x7F,
\* the first that applies: c in {09, 0B, 18, 1E, 1F, 7F}: nothing at all;
\* c = 1B: only esc_state becomes GotEsc; c = 13: only waiting_sep_second
\* becomes true; c in {CR, LF, BS}: one Char(c) and nothing else; another
\* c < 20: one Control(c); c in 20..7E: one Char(c).
C1_IdleDispatch ==
    ParserIdle(drv) =>
      \A b \in Byte : \A junk \in StackResidue :
        LET c == b % 128
            r == parseByte(drv, b, junk, now)
            e == Stored(drv, r)
        IN IF c \in {9, 11, 24, 30, 31, 127} THEN r = drv
           ELSE IF c = 27 THEN r = [drv EXCEPT !.escState = "ESC_GOT_ESC"]
           ELSE IF c = 19 THEN r = [drv EXCEPT !.waitingSepSecond = TRUE]
           ELSE IF c \in {13, 10, 8} THEN OneEvent(drv, r, e) /\ Is(e, "CHAR", c)
           ELSE IF c < 32 THEN OneEvent(drv, r, e) /\ Is(e, "CONTROL", c)
           ELSE OneEvent(drv, r, e) /\ Is(e, "CHAR", c)

\* C1 witness: ';' then ESC were parsed from the idle state: one Char(';') is
\* unread and the parser is in GotEsc
C1_Witness ==
    /\ inLog = <<59, 27>>
    /\ Len(Drain(drv)) = 1
    /\ Drain(drv)[1].type = "CHAR"
    /\ Drain(drv)[1].code = 59
    /\ drv.escState = "ESC_GOT_ESC"

\* C2: when a SEP byte was consumed in the idle state (waiting_sep_second is
\* set), parseByte of any byte b pushes exactly one Sep event with
\* code = b & 0x7F, row = (b >> 4) & 7, col = b & 0x0F, clears
\* waiting_sep_second and leaves the rest of the parser state alone.
C2_SepSecondByte ==
    (drv.escState = "ESC_IDLE" /\ drv.waitingSepSecond) =>
      \A b \in Byte : \A junk \in StackResidue :
        LET r == parseByte(drv, b, junk, now)
            e == MkEvent("SEP", b % 128, (b \div 16) % 8, b % 16, 0, ZeroData)
        IN /\ ~r.waitingSepSecond
           /\ OneEvent([drv EXCEPT !.waitingSepSecond = FALSE,
                                   !.tx = r.tx,
                                   !.sessionState = r.sessionState,
                                   !.lastSessionEventMs = r.lastSessionEventMs],
                       r, e)

\* C2 witness: 0x93 0x1B 0x93 0x93 were parsed: the ESC and the second SEP
\* byte each became the second byte of a SEP sequence
C2_Witness ==
    /\ inLog = <<147, 27, 147, 147>>
    /\ ParserIdle(drv)
    /\ Len(Drain(drv)) = 2
    /\ Drain(drv)[1] = MkEvent("SEP", 27, 1, 11, 0, ZeroData)
    /\ Drain(drv)[2] = MkEvent("SEP", 19, 1, 3, 0, ZeroData)

\* 0x40 | x, for x in 0..127
Or40(x) == IF (x \div 64) % 2 = 1 THEN x ELSE x + 64

\* every event read so far or still unread
AllEvents(d) == readLog \o Drain(d)

\* C3 as claimed: every Sep event has code = 0x40 | (row << 4) | col,
\* row in 0..7 and col in 0..15.
C3_Original ==
    \A k \in 1..Len(AllEvents(drv)) :
      LET e == AllEvents(drv)[k] IN
      e.type = "SEP" =>
        /\ e.row \in 0..7
        /\ e.col \in 0..15
        /\ e.code = Or40(e.row * 16 + e.col)

SepWellFormed(e) ==
    /\ e.row \in 0..7
    /\ e.col \in 0..15
    /\ e.code = e.row * 16 + e.col
    /\ (e.code = Or40(e.row * 16 + e.col)) <=> (e.row >= 4)

\* C3 amended: every Sep event has code = (row << 4) | col, row in 0..7 and
\* col in 0..15; code = 0x40 | (row << 4) | col exactly when row >= 4, that is
\* when the second byte had bit 6 set.  This holds of the events in the FIFO
\* and of the event any second byte would push.
C3_SepFields ==
    /\ \A k \in 1..Len(AllEvents(drv)) :
         AllEvents(drv)[k].type = "SEP" => SepWellFormed(AllEvents(drv)[k])
    /\ (drv.escState = "ESC_IDLE" /\ drv.waitingSepSecond) =>
         \A b \in Byte : \A junk \in StackResidue :
           LET r == parseByte(drv, b, junk, now) IN
           Stored(drv, r).type = "SEP" /\ SepWellFormed(Stored(drv, r))

\* C3 witness: a Sep event of row 5, col 4 (code 0x54) and one of row 1,
\* col 11 (code 0x1B) are unread
C3_Witness ==
    /\ inLog = <<147, 212, 147, 27>>
    /\ Len(Drain(drv)) = 2
    /\ Drain(drv)[1] = MkEvent("SEP", 84, 5, 4, 0, ZeroData)
    /\ Drain(drv)[2] = MkEvent("SEP", 27, 1, 11, 0, ZeroData)

\* C4: in state GotEsc, parseByte of any byte b does, with c = b & 0x7F:
\* c = 3B: only esc_state becomes CollectPro3 and esc_len 0; c in 40..7F: one
\* EscSeq{opcode c, len 0} and esc_state becomes Idle; any other c: no event,
\* esc_state becomes Idle and nothing else changes (no SEP sequence starts).
C4_GotEsc ==
    drv.escState = "ESC_GOT_ESC" =>
      \A b \in Byte : \A junk \in StackResidue :
        LET c == b % 128
            r == parseByte(drv, b, junk, now)
        IN IF c = 59
           THEN r = [drv EXCEPT !.escState = "ESC_3B", !.escTmpLen = 0]
           ELSE IF c >= 64 /\ c <= 127
           THEN OneEvent([drv EXCEPT !.escState = "ESC_IDLE"], r,
                         MkEvent("ESCSEQ", c, 0, 0, 0, ZeroData))
           ELSE r = [drv EXCEPT !.escState = "ESC_IDLE"]

\* C4 witness: ESC 'T' then ESC 0x13 were parsed: one EscSeq{'T'} is unread,
\* the parser is idle and waits for no second SEP byte
C4_Witness ==
    /\ inLog = <<27, 212, 27, 147>>
    /\ ParserIdle(drv)
    /\ Drain(drv) = << MkEvent("ESCSEQ", 84, 0, 0, 0, ZeroData) >>

\* bytes tried as PRO3 payload, three in a row
PayloadBytes == {0, 19, 27, 59, 95, 97, 127, 147, 155, 255}

\* C5: in state CollectPro3 the bytes collected so far are the bytes that
\* followed ESC 3B; parseByte of any byte b as first or second payload byte
\* only stores b & 0x7F, and as third payload byte pushes exactly one
\* EscSeq{opcode 3B, data = the three bytes & 0x7F, len 3} and returns to Idle
\* with esc_len 0; so do any three bytes after ESC 3B.
C5_CollectPro3 ==
    drv.escState = "ESC_3B" =>
      LET n == drv.escTmpLen
          m == Len(inLog)
      IN
      /\ n \in 0..2
      /\ m >= n + 2
      /\ inLog[m - n - 1] % 128 = 27
      /\ inLog[m - n] % 128 = 59
      /\ \A i \in 0..(n - 1) : drv.escTmp[i] = inLog[m - n + 1 + i] % 128
      /\ \A b \in Byte : \A junk \in StackResidue :
           LET c == b % 128
               r == parseByte(drv, b, junk, now)
           IN IF n < 2
              THEN r = [drv EXCEPT !.escTmp[n] = c, !.escTmpLen = n + 1]
              ELSE OneEvent([drv EXCEPT !.escState = "ESC_IDLE", !.escTmpLen = 0,
                                        !.escTmp[2] = c],
                            r, MkEvent("ESCSEQ", 59, 0, 0, 3,
                                       <<drv.escTmp[0], drv.escTmp[1], c, 0>>))
      /\ n = 0 =>
           \A x \in PayloadBytes, y \in PayloadBytes, z \in PayloadBytes :
             \A junk \in StackResidue :
               LET r1 == parseByte(drv, x, junk, now)
                   r2 == parseByte(r1, y, junk, now)
                   r3 == parseByte(r2, z, junk, now)
               IN /\ r1.evCount = drv.evCount
                  /\ r2.evCount = drv.evCount
                  /\ r3.evCount = drv.evCount + 1
                  /\ ParserIdle(r3)
                  /\ r3.escTmpLen = 0
                  /\ Appended(Drain(drv), Drain(r3))
                  /\ Stored(drv, r3) = MkEvent("ESCSEQ", 59, 0, 0, 3,
                                         <<x % 128, y % 128, z % 128, 0>>)

\* C5 witness: ESC 3B followed by ESC, SEP, 'T' was parsed: the three bytes
\* are the payload of the one unread event and the parser is idle
C5_Witness ==
    /\ inLog = <<27, 59, 27, 147, 212>>
    /\ ParserIdle(drv)
    /\ drv.escTmpLen = 0
    /\ Drain(drv) = << MkEvent("ESCSEQ", 59, 0, 0, 3, <<27, 19, 84, 0>>) >>

\* the event e is what the byte at index i of inLog completes
CompletedBy(e, i) ==
    /\ i \in 1..Len(inLog)
    /\ LET c == inLog[i] % 128 IN
       CASE e.type = "SEP" ->
              /\ i >= 2
              /\ inLog[i - 1] % 128 = 19
              /\ e.code = c
         [] e.type = "ESCSEQ" /\ e.escLen = 0 ->
              /\ i >= 2
              /\ inLog[i - 1] % 128 = 27
              /\ e.code = c
         [] e.type = "ESCSEQ" /\ e.escLen # 0 ->
              /\ i >= 5
              /\ inLog[i - 4] % 128 = 27
              /\ inLog[i - 3] % 128 = 59
              /\ e.code = 59
              /\ e.escLen = 3
              /\ e.escData = <<inLog[i - 2] % 128, inLog[i - 1] % 128, c, 0>>
         [] e.type \in {"CHAR", "CONTROL"} -> e.code = c
         [] OTHER -> FALSE

\* the index in inLog of the first byte of the sequence the parser is in
\* the middle of (beyond the end when it is in none)
SequenceStart(d) ==
    IF d.escState = "ESC_GOT_ESC" THEN Len(inLog)
    ELSE IF d.escState = "ESC_3B" THEN Len(inLog) - d.escTmpLen - 1
    ELSE IF d.waitingSepSecond THEN Len(inLog)
    ELSE Len(inLog) + 1

\* C6: with no FIFO overflow, the events readEvent returned followed by the
\* unread ones are, one for one and in order, the events of the parser's
\* pushEvent calls; each is the event completed by the byte during which it
\* was pushed, these bytes come in increasing order, and while the parser is
\* in the middle of a SEP or ESC sequence no event was pushed at or after the
\* first byte of that sequence.
C6_EventOrder ==
    LET all == AllEvents(drv) IN
    /\ Len(all) = Len(pushAt)
    /\ \A k \in 1..Len(all) : CompletedBy(all[k], pushAt[k])
    /\ \A k \in 1..(Len(pushAt) - 1) : pushAt[k] < pushAt[k + 1]
    /\ \A k \in 1..Len(pushAt) : pushAt[k] < SequenceStart(drv)

\* C6 witness: ';' 0x93 'T' were parsed, the consumer has read Char(';')
\* and then Sep 5/4, and nothing is left unread
C6_Witness ==
    /\ inLog = <<59, 147, 212>>
    /\ Len(readLog) = 2
    /\ readLog[1].type = "CHAR" /\ readLog[1].code = 59
    /\ readLog[2] = MkEvent("SEP", 84, 5, 4, 0, ZeroData)
    /\ Drain(drv) = <<>>

\* the bytes of a sequence with the parity bit cleared, and set
Low7(bytes) == [i \in 1..Len(bytes) |-> bytes[i] % 128]
High(bytes) == [i \in 1..Len(bytes) |-> (bytes[i] % 128) + 128]

\* C7: the parity bit is ignored: from any state, parseByte of a byte and of
\* the same byte with bit 7 set give the same driver (parser state, FIFO,
\* transaction, session), and so does poll of two byte sequences that agree
\* on the low 7 bits.
C7_ParityIgnored ==
    /\ \A b \in 0..127 : \A junk \in StackResidue :
         parseByte(drv, b + 128, junk, now) = parseByte(drv, b, junk, now)
    /\ \A bytes \in PollInputs : \A junk \in StackResidue :
         /\ poll(drv, Low7(bytes), junk, now) = poll(drv, bytes, junk, now)
         /\ poll(drv, High(bytes), junk, now) = poll(drv, bytes, junk, now)

\* C7 witness: while the session was opening and a transaction waited for
\* SEP 5/4, the bytes 0x93 0xD4 (parity bit set) were polled: the transaction
\* succeeded, the session is open and Sep 5/4 is unread
C7_Witness ==
    /\ inLog = <<147, 212>>
    /\ ~drv.tx.active
    /\ drv.tx.success
    /\ drv.sessionState = "Open"
    /\ Drain(drv) = << MkEvent("SEP", 84, 5, 4, 0, ZeroData) >>

Min(a, b) == IF a < b THEN a ELSE b

\* C8: pushEvent always stores the new event as the last unread one; it
\* drops the oldest unread event, and only that one, exactly when
\* EVENTBUF_SIZE - 1 events are unread; so while nothing was read, successive
\* readEvent calls return the most recently pushed events, in push order,
\* ending with the last one pushed.
C8_DropOldest ==
    LET q == Drain(drv)
        n == Len(pushLog)
    IN
    /\ \A e \in {NthEvent(n), MkEvent("SEP", 84, 5, 4, 0, ZeroData)} :
         LET q2 == Drain(pushEvent(drv, e)) IN
         IF Len(q) = EVENTBUF_SIZE - 1
         THEN q2 = Append(Tail(q), e)
         ELSE q2 = Append(q, e)
    /\ readLog = <<>> =>
         /\ Len(q) = Min(n, EVENTBUF_SIZE - 1)
         /\ q = SubSeq(pushLog, n - Len(q) + 1, n)

\* C8 witness: 17 events were pushed and none read: the 3rd to the 17th are unread
C8_Witness ==
    /\ Len(pushLog) = 17
    /\ readLog = <<>>
    /\ Len(Drain(drv)) = 15
    /\ Drain(drv)[1] = NthEvent(2)
    /\ Drain(drv)[15] = NthEvent(16)

\* every pushed event was or will be returned by readEvent once and in push
\* order; readEvent returns false exactly when all of them were read, and
\* then changes nothing
NoEventLost ==
    /\ readLog \o Drain(drv) = pushLog
    /\ (~readEvent(drv).ok) <=> (Len(readLog) = Len(pushLog))
    /\ (~readEvent(drv).ok) => readEvent(drv).d = drv

\* C9 as claimed: no event is lost while the number of unread events never
\* exceeds EVENTBUF_SIZE = 16.
C9_Original == (maxUnread <= EVENTBUF_SIZE) => NoEventLost

\* C9 amended: no event is lost while the number of unread events never
\* exceeds EVENTBUF_SIZE - 1 = 15.
C9_NoLossBelowCapacity == (maxUnread <= EVENTBUF_SIZE - 1) => NoEventLost

\* C9 witness: 18 events were pushed and all 18 read, in order, with up to
\* 15 unread at a time; the ring indices have wrapped around
C9_Witness ==
    /\ maxUnread = EVENTBUF_SIZE - 1
    /\ Len(pushLog) = 18
    /\ readLog = pushLog
    /\ ~readEvent(drv).ok
    /\ drv.eventHead = 2

\* C10: at most one transaction is pending: a beginTransactionWaitSep call
\* made while a transaction is pending leaves the pending transaction as it
\* was (the function returns nothing, so it has no way to report a failure).
C10_SinglePending ==
    [][\A a \in BeginArgs :
         (drv.tx.active /\ BeginTransactionWaitSep(a[1], a[2], a[3]))
            => drv'.tx = drv.tx]_vars

\* the (row, col) handleSep decodes from the byte after SEP
SepRow(b) == (b \div 16) % 8
SepCol(b) == b % 16

\* C11: while a transaction is pending, parseByte of the byte that follows
\* SEP resolves it (not pending, success) when the decoded (row, col) is the
\* awaited one and leaves it unchanged otherwise; parseByte of any other
\* byte leaves it unchanged; so does SEP followed by any byte, from an idle
\* parser.
C11_SepResolves ==
    drv.tx.active =>
      /\ \A b \in Byte : \A junk \in StackResidue :
           LET r == parseByte(drv, b, junk, now) IN
           IF /\ drv.escState = "ESC_IDLE"
              /\ drv.waitingSepSecond
              /\ SepRow(b) = drv.tx.sepRow
              /\ SepCol(b) = drv.tx.sepCol
           THEN r.tx = [drv.tx EXCEPT !.active = FALSE, !.success = TRUE]
           ELSE r.tx = drv.tx
      /\ ParserIdle(drv) =>
           \A b \in Byte :
             LET r == parseAll(drv, <<C_SEP, b>>, CHOOSE j \in StackResidue : TRUE, now) IN
             IF SepRow(b) = drv.tx.sepRow /\ SepCol(b) = drv.tx.sepCol
             THEN ~r.tx.active /\ r.tx.success
             ELSE r.tx = drv.tx

\* C11 witness: a transaction waiting for SEP 5/4 was begun while the session
\* was closed, then 0x93 0xD4 were polled: the transaction succeeded
C11_Witness ==
    /\ inLog = <<147, 212>>
    /\ drv.tx = [Transaction0 EXCEPT !.sepRow = 5, !.sepCol = 4,
                                     !.timeoutMs = 500, !.success = TRUE,
                                     !.startTime = drv.tx.startTime]
    /\ drv.sessionState = "Closed"
    /\ Len(Drain(drv)) = 1

\* C12: a poll resolves a pending transaction to Timeout exactly when
\* timeoutMs is non-zero and more than timeoutMs milliseconds have passed
\* since beginTransactionWaitSep.
C12_TimeoutExact ==
    drv.tx.active =>
      \A junk \in StackResidue :
        LET r == poll(drv, <<>>, junk, now)
            e == Elapsed32(now, drv.tx.startTime)
        IN (~r.tx.active /\ ~r.tx.success)
             <=> (drv.tx.timeoutMs # 0 /\ (e.hi > 0 \/ e.lo > drv.tx.timeoutMs))

\* C13: parseByte changes the session state only when the byte is the one
\* after SEP and decodes to (5, 4), and then only from Opening to Open; the
\* session state is one of Closed, Opening, Open.
C13_SessionOnSep54 ==
    /\ drv.sessionState \in {"Closed", "Opening", "Open"}
    /\ \A b \in Byte : \A junk \in StackResidue :
         parseByte(drv, b, junk, now).sessionState =
            IF /\ drv.escState = "ESC_IDLE"
               /\ drv.waitingSepSecond
               /\ SepRow(b) = 5 /\ SepCol(b) = 4
               /\ drv.sessionState = "Opening"
            THEN "Open"
            ELSE drv.sessionState

\* C13 witness: startSession(0) was called, then SEP 5/4 arrived with no
\* transaction begun: the session is open
C13_Witness ==
    /\ inLog = <<147, 212>>
    /\ drv.sessionState = "Open"
    /\ drv.tx = Transaction0

\* the character set selected by the last byte of out that is SO or in g0
\* (G0 when there is none)
SelectedSet(out, g0) ==
    LET idx == {i \in 1..Len(out) : out[i] = C_SO \/ out[i] \in g0} IN
    IF idx = {} THEN "G0_ALPHA"
    ELSE LET last == CHOOSE i \in idx : \A j \in idx : j <= i IN
         IF out[last] = C_SO THEN "G1_GRAPHIC" ELSE "G0_ALPHA"

\* the bytes the caller handed to the call c to be written as they are
CallData(c) ==
    IF c.op \in {"writeRaw", "putChar", "putSemiGraphic"}
    THEN {c.args[1] % 128}
    ELSE IF c.op \in {"print", "printSemiGraphics", "printRow0"}
    THEN {c.args[1][i] % 128 : i \in 1..Len(c.args[1])}
    ELSE {}

\* C14 as claimed: the tracked set is the one selected by the last of the
\* bytes SI, US, FF (G0) and SO (G1) written to the sink.
C14_Original == drv.currentSet = SelectedSet(drv.out, {C_SI, C_US, C_FF})

\* C14 amended: RS selects G0 as well, and the bytes handed over by the
\* caller are none of SI, SO, US, FF, RS: a TX call made when the tracked
\* set was the one selected by the last of SI, US, FF, RS (G0) and SO (G1)
\* written leaves it so.
C14_TrackedSet ==
    ( /\ call.op \notin {"none", "requestCursorPosition"}
      /\ CallData(call) \cap {C_SI, C_SO, C_US, C_FF, C_RS} = {}
      /\ call.pre.currentSet = SelectedSet(call.pre.out, {C_SI, C_US, C_FF, C_RS}) )
    => drv.currentSet = SelectedSet(drv.out, {C_SI, C_US, C_FF, C_RS})

\* C14 witness: beginSemiGraphics wrote SO, then home wrote RS: the tracked
\* set is G0
C14_Witness ==
    /\ call.op = "home"
    /\ call.pre.currentSet = "G1_GRAPHIC"
    /\ drv.out = <<C_SO, C_RS>>
    /\ drv.currentSet = "G0_ALPHA"

\* x clamped to lo..hi
Clamp(x, lo, hi) == IF x < lo THEN lo ELSE IF x > hi THEN hi ELSE x

\* C15: setCursor(row, col), for any row and col in 0..255, writes the three
\* bytes US, 0x40 | r, 0x40 | c with r = row clamped to 1..24 and c = col
\* clamped to 1..40, sets the tracked set to G0 and changes nothing else of
\* the driver.
C15_SetCursor ==
    call.op = "setCursor" =>
       drv = [call.pre EXCEPT
                !.out = @ \o <<31, 64 + Clamp(call.args[1], 1, 24),
                                   64 + Clamp(call.args[2], 1, 40)>>,
                !.currentSet = "G0_ALPHA"]

\* C15 witness: setCursor(255, 0) called in G1 wrote US 0x58 0x41
C15_Witness ==
    /\ call.op = "setCursor"
    /\ call.args = <<255, 0>>
    /\ call.pre.currentSet = "G1_GRAPHIC"
    /\ drv.out = <<14, 31, 88, 65>>
    /\ drv.currentSet = "G0_ALPHA"

\* C16: for row in 1..24 and col in 1..40, the parser, idle, fed the three
\* bytes setCursor(row, col) wrote, yields Control(US), Char(0x40 | row),
\* Char(0x40 | col), in that order.
C16_CursorLoopback ==
    ( /\ call.op = "setCursor"
      /\ call.args[1] \in 1..24
      /\ call.args[2] \in 1..40 )
    => \A junk \in StackResidue :
         LET n == Len(drv.out)
             ev == Drain(parseAll(drv, SubSeq(drv.out, n - 2, n), junk, now))
         IN /\ Len(ev) = 3
            /\ Is(ev[1], "CONTROL", C_US)
            /\ Is(ev[2], "CHAR", 64 + call.args[1])
            /\ Is(ev[3], "CHAR", 64 + call.args[2])

\* C17: requestCursorPosition, when the terminal delivers US r c with r and c
\* printable before the timeout, returns true with outRow = r and outCol = c.
C17_CursorReply ==
    ( /\ call.op = "requestCursorPosition"
      /\ Len(call.args[1]) = 3
      /\ call.args[1][1] = C_US
      /\ call.args[1][2] \in 32..126
      /\ call.args[1][3] \in 32..126 )
    => call.ret = <<TRUE, call.args[1][2], call.args[1][3]>>

\* the length of the run of equal bytes that s starts with
RECURSIVE RunLength(_)
RunLength(s) ==
    IF Len(s) <= 1 THEN Len(s)
    ELSE IF s[2] = s[1] THEN 1 + RunLength(Tail(s))
    ELSE 1

\* a run of n bytes c, n >= 4, as chunks of at most 95: c, REP, 0x1F + k
RECURSIVE RepChunks(_, _)
RepChunks(c, n) ==
    IF n = 0 THEN <<>>
    ELSE LET k == IF n > 95 THEN 95 ELSE n IN
         <<c, C_REP, 31 + k>> \o RepChunks(c, n - k)

\* the run-length coding of s that the claim describes
RECURSIVE RunLengthCoded(_)
RunLengthCoded(s) ==
    IF s = <<>> THEN <<>>
    ELSE LET n == RunLength(s)
             rest == SubSeq(s, n + 1, Len(s))
         IN (IF n < 4 THEN [i \in 1..n |-> s[1]] ELSE RepChunks(s[1], n))
              \o RunLengthCoded(rest)

\* C18: print(s) and printSemiGraphics(s) write, after the shift byte if one
\* is needed, the run-length coding of s.
C18_RunLengthCoded ==
    /\ call.op = "print" =>
         drv.out = call.pre.out
                     \o (IF call.pre.currentSet # "G0_ALPHA" THEN <<C_SI>> ELSE <<>>)
                     \o RunLengthCoded(call.args[1])
    /\ call.op = "printSemiGraphics" =>
         drv.out = call.pre.out
                     \o (IF call.pre.currentSet # "G1_GRAPHIC" THEN <<C_SO>> ELSE <<>>)
                     \o RunLengthCoded(call.args[1])

\* bit i of the mask m is set
HasBit(m, i) == (m \div (2 ^ i)) % 2 = 1

\* C19: drawPixel(x, y, on) with x in 0..79 and y in 0..71 gives bit
\* 2 * (y mod 3) + (x mod 2) of the mask of cell (x / 2, y / 3) the value
\* `on` and leaves the other bits of that mask as they were; when on, the
\* colour of that cell becomes the draw colour, otherwise it stays; the mask
\* and colour of every other cell stay; with x or y off the grid nothing
\* changes at all.  (In BitmapOnly mode nothing else changes either.)
C19_DrawPixel ==
    call.op = "none" =>
      LET x  == call.args[1]
          y  == call.args[2]
          on == call.args[3]
          r  == drawPixel([g |-> gfx, d |-> drv], x, y, on)
      IN IF x \in 0..79 /\ y \in 0..71
         THEN LET cell == (y \div 3) * 40 + (x \div 2)
                  s == 2 * (y % 3) + (x % 2)
              IN /\ \A i \in 0..7 :
                      HasBit(r.g.cellMask[cell], i) =
                         IF i = s THEN on ELSE HasBit(gfx.cellMask[cell], i)
                 /\ r.g.cellColor[cell] =
                      IF on THEN gfx.drawColor ELSE gfx.cellColor[cell]
                 /\ \A k \in 0..959 :
                      k # cell => /\ r.g.cellMask[k] = gfx.cellMask[k]
                                  /\ r.g.cellColor[k] = gfx.cellColor[k]
                 /\ gfx.drawMode = "BitmapOnly" =>
                      /\ r.d = drv
                      /\ r.g = [gfx EXCEPT !.cellMask = r.g.cellMask,
                                           !.cellColor = r.g.cellColor]
         ELSE r = [g |-> gfx, d |-> drv]

\* C19 witness: after setDrawColor(Red), drawPixel(79, 71, true) set bit 5 of
\* the last cell and made it red; the first cell is as it was
C19_Witness ==
    /\ call.op = "drawPixel"
    /\ call.args = <<79, 71, TRUE>>
    /\ gfx.cellMask[959] = 32
    /\ gfx.cellColor[959] = Red
    /\ gfx.cellMask[0] = 0
    /\ gfx.cellColor[0] = White

\* C20: maskToG1 is one-to-one on 0..63: 0 -> 0x20, 0x3F -> 0x5F,
\* 1..31 -> 0x20 + m, 32..62 -> 0x60 + (m - 32); every result is in
\* 0x20..0x7E.
C20_MaskToG1 ==
    /\ \A m1 \in 0..63 : \A m2 \in 0..63 :
         m1 # m2 => maskToG1(m1) # maskToG1(m2)
    /\ \A m \in 0..63 :
         /\ maskToG1(m) \in 32..126
         /\ maskToG1(m) = IF m = 0 THEN 32
                          ELSE IF m = 63 THEN 95
                          ELSE IF m <= 31 THEN 32 + m
                          ELSE 96 + (m - 32)
    /\ \A k \in {0, 959} :
         gfx.cellMask[k] \in 0..63 /\ maskToG1(gfx.cellMask[k]) \in 32..126

\* C20 witness: in Immediate mode drawPixel(0, 0, true) gave the first cell
\* the mask 1 and wrote US 0x41 0x41 SO and the glyph maskToG1(1) = 0x21
C20_Witness ==
    /\ call.op = "drawPixel"
    /\ gfx.drawMode = "Immediate"
    /\ gfx.cellMask[0] = 1
    /\ drv.out = <<31, 65, 65, 14, maskToG1(gfx.cellMask[0])>>
    /\ drv.out[5] = 33

\* the bytes a call wrote to the stream, given the driver before and after it
Written(before, after) == SubSeq(after.out, Len(before.out) + 1, Len(after.out))

\* C21: in every state, flush(OptimizedDiff) leaves the masks and colours of
\* the framebuffer as they are and makes the shadow masks and colours equal
\* to them, and a second flush(OptimizedDiff) right after it writes no byte.
C21_DiffFlushSettles ==
    LET r1 == flush(Both, "OptimizedDiff")
        r2 == flush(r1, "OptimizedDiff")
    IN /\ r1.g.cellMask = gfx.cellMask
       /\ r1.g.cellColor = gfx.cellColor
       /\ r1.g.lastCellMask = gfx.cellMask
       /\ r1.g.lastCellColor = gfx.cellColor
       /\ Written(r1.d, r2.d) = <<>>
       /\ r2.g = r1.g

\* C21 witness: a flush has just written nothing, after an earlier one that
\* wrote the screen with a pixel in its first cell
C21_Witness ==
    /\ call.op = "flush"
    /\ call.args = <<"OptimizedDiff">>
    /\ Written(call.pre, drv) = <<>>
    /\ drv.out # <<>>
    /\ gfx.cellMask[0] = 1
    /\ gfx.lastCellMask = gfx.cellMask
    /\ gfx.lastCellColor = gfx.cellColor

\* a cleared framebuffer whose shadows equal it, draw colour and colour
\* tracker White, the cursor unknown, BitmapOnly mode
ClearedAndFlushed ==
    /\ \A k \in 0..(NUM_CELLS - 1) : gfx.cellMask[k] = 0
    /\ gfx.lastCellMask = gfx.cellMask
    /\ gfx.lastCellColor = gfx.cellColor
    /\ gfx.drawColor = White
    /\ gfx.termFgColor = White
    /\ ~gfx.hasCursor
    /\ gfx.drawMode = "BitmapOnly"

\* what drawPixel(0, 0, true) and then flush(OptimizedDiff) write
OnePixelFlushed ==
    LET p == drawPixel(Both, 0, 0, TRUE)
    IN Written(p.d, flush(p, "OptimizedDiff").d)

\* C22 as stated: from a cleared and flushed framebuffer, drawPixel(0, 0,
\* true) and flush(OptimizedDiff) write US, 0x41, 0x41, SO, 0x21 and nothing
\* else.
C22_Original ==
    ClearedAndFlushed => OnePixelFlushed = <<C_US, 65, 65, C_SO, 33>>

\* C22 amended: from a cleared and flushed framebuffer, drawPixel(0, 0, true)
\* and flush(OptimizedDiff) write the six bytes US, 0x41, 0x41, SO, 0x21, SI
\* and nothing else: the flush leaves G1 at its end.
C22_OnePixelFlush ==
    ClearedAndFlushed => OnePixelFlushed = <<C_US, 65, 65, C_SO, 33, C_SI>>

\* C22 witness: clear, drawPixel(0, 0, true) and flush(OptimizedDiff) wrote
\* the six bytes
C22_Witness ==
    /\ call.op = "flush"
    /\ call.args = <<"OptimizedDiff">>
    /\ Written(call.pre, drv) = <<C_US, 65, 65, C_SO, 33, C_SI>>
    /\ gfx.cellMask[0] = 1
    /\ \A k \in 1..(NUM_CELLS - 1) : gfx.cellMask[k] = 0
    /\ gfx.drawColor = White

\* A terminal reading the wire protocol: US row col places the cursor, a byte
\* from 0x20 on paints one cell and moves one column on (column 1 of the next
\* row after column 40, staying on row 24), REP and a count byte 0x1F + k
\* paint k more copies of the last glyph, ESC takes one more byte and paints
\* nothing, the other controls paint nothing.  shown is the glyph each cell
\* shows (-1: never painted), paints the number of times each cell was painted.
Terminal0 ==
    [row |-> 1, col |-> 1, last |-> 32,
     shown |-> [k \in 0..(NUM_CELLS - 1) |-> -1],
     paints |-> [k \in 0..(NUM_CELLS - 1) |-> 0]]

\* the i-th cell from the cell k on, in the order of the cursor
CellAfter(k, i) ==
    IF k + i < NUM_CELLS THEN k + i
    ELSE (NUM_CELLS - CELL_COLS) + ((k + i - (NUM_CELLS - CELL_COLS)) % CELL_COLS)

\* the terminal paints n cells with the glyph
TermPaint(t, glyph, n) ==
    LET k == (t.row - 1) * CELL_COLS + (t.col - 1)
        hit(c) == IF k + n <= NUM_CELLS
                  THEN (IF k <= c /\ c < k + n THEN 1 ELSE 0)
                  ELSE Cardinality({i \in 0..(n - 1) : CellAfter(k, i) = c})
        next == CellAfter(k, n)
    IN [t EXCEPT !.last = glyph,
                 !.shown = [c \in 0..(NUM_CELLS - 1) |-> IF hit(c) > 0 THEN glyph ELSE @[c]],
                 !.paints = [c \in 0..(NUM_CELLS - 1) |-> @[c] + hit(c)],
                 !.row = (next \div CELL_COLS) + 1,
                 !.col = (next % CELL_COLS) + 1]

\* the terminal after the bytes from the i-th to the n-th; it stops at a
\* cursor address off the screen
RECURSIVE TermBytes(_, _, _, _)
TermBytes(t, bytes, i, n) ==
    IF i > n \/ t.row \notin 1..CELL_ROWS \/ t.col \notin 1..CELL_COLS THEN t
    ELSE LET b == bytes[i] IN
         IF b = C_US /\ i + 2 <= n
         THEN TermBytes([t EXCEPT !.row = bytes[i + 1] - 64, !.col = bytes[i + 2] - 64],
                        bytes, i + 3, n)
         ELSE IF b = C_ESC THEN TermBytes(t, bytes, i + 2, n)
         ELSE IF b = C_REP /\ i + 1 <= n
         THEN TermBytes(TermPaint(t, t.last, bytes[i + 1] - 31), bytes, i + 2, n)
         ELSE IF b >= 32 THEN TermBytes(TermPaint(t, b, 1), bytes, i + 1, n)
         ELSE TermBytes(t, bytes, i + 1, n)

\* the places of the US bytes, in order (no argument byte written by the
\* graphics engine is below 0x40, so every US byte starts a cursor address)
UsPlaces(bytes) ==
    LET S == {i \in 1..Len(bytes) : bytes[i] = C_US}
    IN [j \in 1..Cardinality(S) |-> CHOOSE i \in S : Cardinality({x \in S : x < i}) = j - 1]

\* the terminal after the bytes of the cursor addresses lo..hi, each with
\* the bytes that follow it up to the next one
RECURSIVE TermFrom(_, _, _, _, _)
TermFrom(t, bytes, us, lo, hi) ==
    IF lo > hi THEN t
    ELSE IF lo = hi
    THEN TermBytes(t, bytes, us[lo], IF lo = Len(us) THEN Len(bytes) ELSE us[lo + 1] - 1)
    ELSE LET mid == (lo + hi) \div 2
             half == TermFrom(t, bytes, us, lo, mid)
         IN IF Evaluated(half) THEN TermFrom(half, bytes, us, mid + 1, hi) ELSE half

Terminal(bytes) ==
    LET us == UsPlaces(bytes)
        first == IF Len(us) = 0 THEN Len(bytes) ELSE us[1] - 1
    IN TermFrom(TermBytes(Terminal0, bytes, 1, first), bytes, us, 1, Len(us))

\* the cell k differs from its shadow
Dirty(k) ==
    gfx.cellMask[k] # gfx.lastCellMask[k] \/ gfx.cellColor[k] # gfx.lastCellColor[k]

\* C23: in every state, the bytes flush(OptimizedDiff) writes paint exactly
\* the dirty cells: every dirty cell is painted and shows maskToG1 of its
\* mask, and no clean cell is painted.
C23_DirtyCellsPainted ==
    LET t == Terminal(Written(drv, flush(Both, "OptimizedDiff").d))
    IN \A k \in 0..(NUM_CELLS - 1) :
         IF Dirty(k) THEN t.shown[k] = maskToG1(gfx.cellMask[k])
         ELSE t.paints[k] = 0

\* C27: in every state, the bytes flush(FullRedraw) writes paint every cell
\* of the 24 rows of 40 exactly once, with maskToG1 of the cell's mask.
C27_FullRedrawPaints ==
    LET t == Terminal(Written(drv, flush(Both, "FullRedraw").d))
    IN \A k \in 0..(NUM_CELLS - 1) :
         /\ t.paints[k] = 1
         /\ t.shown[k] = maskToG1(gfx.cellMask[k])

\* the bytes of a relative move: n times one byte
Moves(n, byte) == [i \in 1..n |-> byte]

\* C24: in every state and for every cell (r, c) of the screen, gotoCell(r, c)
\* leaves the tracked cursor on (r, c) with has_cursor set; with has_cursor
\* false it writes US, 0x40|r, 0x40|c, SO; with has_cursor true and
\* |dr| + |dc| <= 4 it writes |dr| bytes LF (down) or VT (up) and then |dc|
\* bytes HT (right) or BS (left), and no US; otherwise it writes US, 0x40|r,
\* 0x40|c, SO.
C24_GotoCell ==
    \A r \in 1..CELL_ROWS, c \in 1..CELL_COLS :
        LET at == gotoCell(Both, r, c)
            out == Written(drv, at.d)
            dr == r - gfx.curRow
            dc == c - gfx.curCol
        IN /\ at.g.curRow = r
           /\ at.g.curCol = c
           /\ at.g.hasCursor
           /\ IF gfx.hasCursor /\ Abs(dr) + Abs(dc) <= 4
              THEN out = Moves(Abs(dr), IF dr > 0 THEN C_LF ELSE C_VT)
                         \o Moves(Abs(dc), IF dc > 0 THEN C_HT ELSE C_BS)
              ELSE out = <<C_US, 64 + r, 64 + c, C_SO>>

\* the cursor was on (5, 10) and the pixel drawn lies in the cell (5, 12):
\* HT, HT and the glyph were written
C24_Witness ==
    /\ call.op = "drawPixel"
    /\ call.args = <<22, 12, TRUE>>
    /\ gfx.hasCursor
    /\ gfx.curRow = 5
    /\ gfx.curCol = 13
    /\ Written(call.pre, drv) = <<C_HT, C_HT, 33>>


\* the step leaves every entry of the two shadow arrays as it is
ShadowsKept ==
    /\ gfx'.lastCellMask = gfx.lastCellMask
    /\ gfx'.lastCellColor = gfx.lastCellColor

DrawingOps == {"drawPixel", "drawLine", "drawRect"}

PixelSet(g, x, y) == HasBit(g.cellMask[charIndex(x \div 2, y \div 3)], 2 * (y % 3) + (x % 2))

Max(a, b) == IF a < b THEN b ELSE a

\* C26: in every state before the call, drawLine(x0, y0, x1, y1, true)
\* returns, the pixels (x0, y0) and (x1, y1) are set after it, and every
\* pixel that is set after it and was not set before lies in the rectangle
\* [min(x0, x1), max(x0, x1)] x [min(y0, y1), max(y0, y1)].
C26_DrawLine ==
    call.op = "none" =>
        LET x0 == call.args[1]
            y0 == call.args[2]
            x1 == call.args[3]
            y1 == call.args[4]
            r == drawLine(Both, x0, y0, x1, y1, TRUE)
        IN /\ r.returned
           /\ PixelSet(r.g, x0, y0)
           /\ PixelSet(r.g, x1, y1)
           /\ \A x \in 0..(PIXEL_COLS - 1), y \in 0..(PIXEL_ROWS - 1) :
                 PixelSet(r.g, x, y) /\ ~PixelSet(gfx, x, y)
                     => /\ Min(x0, x1) <= x /\ x <= Max(x0, x1)
                        /\ Min(y0, y1) <= y /\ y <= Max(y0, y1)

\* the line from (78, 2) to (3, 70) was drawn: its end points are set and
\* so is a pixel between them
C26_Witness ==
    /\ call.op = "drawLine"
    /\ call.args = <<78, 2, 3, 70, TRUE>>
    /\ PixelSet(gfx, 78, 2)
    /\ PixelSet(gfx, 3, 70)
    /\ \E x \in 4..77 : PixelSet(gfx, x, 36)


\* the last byte received made the parser push an event
LastBytePushed == pushAt # <<>> /\ pushAt[Len(pushAt)] = Len(inLog)

\* C30: in every state where the parseByte call of the last byte pushed an
\* event, the parser waits for no second SEP byte and is in no escape
\* sequence.
C30_PushLeavesParserIdle ==
    LastBytePushed => ~drv.waitingSepSecond /\ drv.escState = "ESC_IDLE"

\* the third payload byte of ESC 0x3B has just pushed the ESCSEQ event
C30_Witness ==
    /\ LastBytePushed
    /\ Len(inLog) = 5
    /\ inLog[1] = 27
    /\ inLog[2] = 59
    /\ pushAt = <<5>>
    /\ drv.escState = "ESC_IDLE"


\* the byte of buf at the index j after the writes: the last one written there
BufAt(writes, j) ==
    LET W == {i \in 1..Len(writes) : writes[i][1] = j}
    IN writes[CHOOSE i \in W : \A i2 \in W : i2 <= i][2]

\* C29: in every state before the call, readLine with bufSize = 0 returns
\* false and writes nothing to buf; with bufSize >= 1 every write to buf is
\* at an index in 0..bufSize-1, and when readLine returns, idx is at most
\* bufSize-1, the last write is the null byte at idx, and the bytes of buf
\* below idx are printable bytes.
C29_ReadLine ==
    call.op = "none" =>
        \A junk \in StackResidue :
            LET bufSize == call.args[1]
                r == readLine(drv, bufSize, call.args[2], call.args[3], call.args[4],
                              call.args[5], junk, now)
            IN IF bufSize = 0
               THEN r.returned /\ ~r.ok /\ r.writes = <<>>
               ELSE /\ \A i \in 1..Len(r.writes) : r.writes[i][1] \in 0..(bufSize - 1)
                    /\ r.returned =>
                          /\ r.idx <= bufSize - 1
                          /\ r.writes # <<>>
                          /\ r.writes[Len(r.writes)] = <<r.idx, 0>>
                          /\ \A j \in 0..(r.idx - 1) : BufAt(r.writes, j) \in 32..126

\* readLine with bufSize = 2 has read A, A, A and CR: the first A is in buf,
\* the two others were dropped, and the terminator is at the index 1
C29_Witness ==
    /\ call.op = "readLine"
    /\ call.args[1] = 2
    /\ call.args[5] = <<65, 65, 65, C_CR>>
    /\ call.ret = <<TRUE, 1, << <<0, 65>>, <<1, 0>> >> >>


WaitReturned == call.op = "waitEvent" /\ call.ret # <<>>

\* C28: waitEvent does not go on looping while an event is unread, and when
\* it returns true it returns the event of the key typed; when more than
\* timeoutMs milliseconds have passed, with timeoutMs from 1 to 65535,
\* waitEvent eventually returns; when it returns false, timeoutMs is not 0
\* and the event has the type TIMEOUT.
C28_WaitEvent ==
    /\ [](InWaitEvent /\ polls = 1 => ~eventAvailable(drv))
    /\ [](WaitReturned /\ call.ret[1]
             => call.ret[2].type = "CHAR" /\ call.ret[2].code = inLog[1])
    /\ [](WaitReturned /\ ~call.ret[1]
             => call.args[1] # 0 /\ call.ret[2].type = "TIMEOUT")
    /\ \A timeoutMs \in WaitTimeouts \ {0} :
          (InWaitEvent /\ call.args[1] = timeoutMs /\ WaitedMoreThan(timeoutMs)) ~> WaitReturned


\* C40: after every parseByte call the parser does not both wait for the
\* second SEP byte and stand in an escape sequence; escTmpLen is at most 2,
\* and is 0 when escState is ESC_IDLE or ESC_GOT_ESC; no byte received has
\* pushed more than one event, and no byte would.
C40_ParserShape ==
    /\ ~(drv.waitingSepSecond /\ drv.escState # "ESC_IDLE")
    /\ drv.escTmpLen <= 2
    /\ drv.escState \in {"ESC_IDLE", "ESC_GOT_ESC"} => drv.escTmpLen = 0
    /\ \A i \in 1..Len(pushAt) : \A j \in 1..Len(pushAt) : pushAt[i] = pushAt[j] => i = j
    /\ \A b \in Byte : \A junk \in StackResidue :
          parseByte(drv, b, junk, now).evCount - drv.evCount \in {0, 1}

\* ESC 3B and two payload bytes were received: the parser is in the
\* sequence with two bytes collected, and no event was pushed
C40_Witness ==
    /\ Len(inLog) = 4
    /\ inLog[1] = 27
    /\ inLog[2] = 59
    /\ drv.escState = "ESC_3B"
    /\ drv.escTmpLen = 2
    /\ pushAt = <<>>

\* SEP 5/4 is among the bytes received
Sep54Received == \E i \in 1..(Len(inLog) - 1) : inLog[i] = 19 /\ inLog[i + 1] = 84

\* C37: once startSession(timeoutMs) with timeoutMs > 0 has returned, no
\* transaction is pending; when it returned true the session is Open and
\* SEP 5/4 was received; when it returned false the session is Closed and
\* stays Closed, and the transaction is not successful and does not become
\* successful, whatever is polled afterwards.
C37_StartSession ==
    StartSessionReturned =>
        /\ ~drv.tx.active
        /\ IF call.ret[1]
           THEN drv.sessionState = "Open" /\ Sep54Received
           ELSE drv.sessionState = "Closed" /\ ~drv.tx.success


\* C38: in every state where no transaction is pending, parseByte of any
\* byte leaves the transaction as it is, its outcome included, and so does
\* a poll at any later time.
C38_OutcomeStable ==
    ~drv.tx.active =>
        \A junk \in StackResidue :
            /\ \A b \in Byte : parseByte(drv, b, junk, now).tx = drv.tx
            /\ \A dt \in Gaps : poll(drv, <<>>, junk, TimeAdd(now, dt)).tx = drv.tx

\* a transaction has timed out, and SEP 5/4 was received afterwards: it is
\* still not successful
C38_Witness ==
    /\ ~drv.tx.active
    /\ ~drv.tx.success
    /\ drv.tx.timeoutMs = 500
    /\ inLog = <<147, 212>>
    /\ polls = 2
    /\ Len(Drain(drv)) = 1


\* C35: when a transaction waiting for SEP 5/4 is pending and its deadline
\* has elapsed, a poll that finds the SEP available resolves the
\* transaction to Success, and the timeout check that follows the parsing
\* changes nothing.
C35_ParseBeforeDeadline ==
    ( /\ drv.tx.active
      /\ drv.tx.timeoutMs > 0
      /\ ElapsedU16(now, drv.tx.startTime) > drv.tx.timeoutMs ) =>
        \A junk \in StackResidue :
            LET bytes  == IF drv.waitingSepSecond THEN <<212>> ELSE <<147, 212>>
                parsed == parseAll(drv, bytes, junk, now)
                polled == poll(drv, bytes, junk, now)
            IN /\ ~polled.tx.active
               /\ polled.tx.success
               /\ polled = parsed

\* a transaction is successful by a SEP 5/4 parsed after its deadline
C35_Witness ==
    /\ ~drv.tx.active
    /\ drv.tx.success
    /\ drv.tx.timeoutMs = 500
    /\ ElapsedU16(drv.lastSessionEventMs, drv.tx.startTime) = 501
    /\ inLog = <<147, 212>>

\* the byte at place i of w, 0 where w has no such place
ByteAt(w, i) == IF i \in 1..Len(w) THEN w[i] ELSE 0

ShiftOps == {"putChar", "print", "printSemiGraphics", "putSemiGraphic",
             "beginSemiGraphics", "endSemiGraphics"}

\* no two SI, and no two SO, in out without one of the other shift, US, FF,
\* RS between them
NoDoubleShift(out) ==
    \A i \in 1..Len(out) : \A j \in (i + 1)..Len(out) :
        (out[i] \in {C_SI, C_SO} /\ out[j] = out[i]) =>
            \E k \in (i + 1)..(j - 1) :
                out[k] \in ({C_SI, C_SO, C_US, C_FF, C_RS} \ {out[i]})

\* the tracked set of d has its cause in what d has written: G1 after an SO
\* with no SI behind it, G0 when no SO was written or one of SI, US, FF, RS
\* came after the last
TrackerFollows(d) ==
    IF d.currentSet = "G1_GRAPHIC"
    THEN SelectedSet(d.out, {C_SI}) = "G1_GRAPHIC" /\ d.out # <<>>
    ELSE SelectedSet(d.out, {C_SI, C_US, C_FF, C_RS}) = "G0_ALPHA"

\* in what the last call wrote, SI was written only with G1 tracked and SO
\* only with G0 tracked; the tracker changes with the first byte written, if
\* it changes at all
ShiftsOnlyWhenNeeded ==
    LET w == Written(call.pre, drv)
    IN \A i \in 1..Len(w) :
          LET tracked == IF i = 1 THEN call.pre.currentSet ELSE drv.currentSet
          IN /\ w[i] = C_SI => tracked = "G1_GRAPHIC"
             /\ w[i] = C_SO => tracked = "G0_ALPHA"

\* C31 as claimed: whatever bytes the caller hands over, a call of putChar,
\* print, printSemiGraphics, putSemiGraphic, beginSemiGraphics or
\* endSemiGraphics writes SI only with G1 tracked and SO only with G0
\* tracked, and leaves no two SI and no two SO without an opposite shift,
\* US, FF or RS between them.
C31_Original ==
    ( /\ call.op \in ShiftOps
      /\ TrackerFollows(call.pre)
      /\ NoDoubleShift(call.pre.out) )
    => ShiftsOnlyWhenNeeded /\ NoDoubleShift(drv.out)

\* C31 amended: the same, for calls whose data bytes are neither SI nor SO;
\* the tracked set keeps its cause in what was written.
C31_ShiftsElided ==
    ( /\ call.op \in ShiftOps
      /\ CallData(call) \cap {C_SI, C_SO} = {}
      /\ TrackerFollows(call.pre)
      /\ NoDoubleShift(call.pre.out) )
    => /\ ShiftsOnlyWhenNeeded
       /\ NoDoubleShift(drv.out)
       /\ TrackerFollows(drv)

\* C31 witness: beginSemiGraphics wrote SO, and putSemiGraphic then wrote
\* its glyph without a second SO
C31_Witness ==
    /\ call.op = "putSemiGraphic"
    /\ call.pre.out = <<C_SO>>
    /\ call.pre.currentSet = "G1_GRAPHIC"
    /\ drv.out = <<C_SO, 33>>

\* the cursor after one more glyph: one column on, column 1 of the next row
\* after column 40, staying on row 24
CursorAfterGlyphs(cur, n) ==
    LET k == (cur.row - 1) * CELL_COLS + (cur.col - 1) + n
        r == k \div CELL_COLS
    IN [known |-> cur.known,
        row |-> IF r >= CELL_ROWS THEN CELL_ROWS ELSE r + 1,
        col |-> (k % CELL_COLS) + 1]

\* reading w from place i with the cursor at cur (known or not): TRUE when
\* a US is written although the cursor is known and its target is at most
\* costUS relative moves away
RECURSIVE UsWithinReach(_, _, _)
UsWithinReach(w, i, cur) ==
    IF i > Len(w) THEN FALSE
    ELSE IF w[i] = C_US
    THEN LET row == ByteAt(w, i + 1) - 64
             col == ByteAt(w, i + 2) - 64
         IN \/ cur.known /\ Abs(row - cur.row) + Abs(col - cur.col) <= costUS
            \/ UsWithinReach(w, i + 3, [known |-> TRUE, row |-> row, col |-> col])
    ELSE IF w[i] = C_ESC THEN UsWithinReach(w, i + 2, cur)
    ELSE IF w[i] = C_REP
    THEN UsWithinReach(w, i + 2, CursorAfterGlyphs(cur, ByteAt(w, i + 1) - 64))
    ELSE IF w[i] >= 32 THEN UsWithinReach(w, i + 1, CursorAfterGlyphs(cur, 1))
    ELSE UsWithinReach(w, i + 1, cur)

\* C32: in what flush(OptimizedDiff) writes, with the cursor unknown at its
\* start and known from its first US on, advancing with every glyph, no US
\* is written for a run that starts at most 4 relative moves from the
\* cursor.
C32_CursorPath ==
    (call.op = "flush" /\ call.args = <<"OptimizedDiff">>) =>
        ~UsWithinReach(Written(call.pre, drv), 1, [known |-> FALSE, row |-> 1, col |-> 1])

\* what is expected of drawPixel(x, y, on) in Immediate mode when it prints
\* the cell of the pixel: the cursor move of C24 to that cell, SO when a
\* relative move was made with G0 tracked, and the glyph of the new mask
CellPrinted(x, y, on) ==
    LET r == (y \div 3) + 1
        c == (x \div 2) + 1
        dr == r - gfx.curRow
        dc == c - gfx.curCol
        relative == gfx.hasCursor /\ Abs(dr) + Abs(dc) <= 4
        newMask == drawPixel(Both, x, y, on).g.cellMask[charIndex(c - 1, r - 1)]
    IN (IF relative
        THEN Moves(Abs(dr), IF dr > 0 THEN C_LF ELSE C_VT)
             \o Moves(Abs(dc), IF dc > 0 THEN C_HT ELSE C_BS)
             \o (IF drv.currentSet # "G1_GRAPHIC" THEN <<C_SO>> ELSE <<>>)
        ELSE <<C_US, 64 + r, 64 + c, C_SO>>)
       \o <<maskToG1(newMask)>>

\* the new mask of the cell of the pixel differs from its shadow mask
CellChanges(x, y, on) ==
    LET k == charIndex(x \div 2, y \div 3)
    IN drawPixel(Both, x, y, on).g.cellMask[k] # gfx.lastCellMask[k]

\* C33 as claimed: in every state, drawPixel of a pixel of the grid writes,
\* in Immediate mode, the cursor move to the cell of the pixel and the one
\* glyph of its new mask, and nothing in BitmapOnly mode.
C33_Original ==
    \A p \in GotoPixels, on \in BOOLEAN :
        Written(drv, drawPixel(Both, p[1], p[2], on).d) =
            IF gfx.drawMode = "Immediate" THEN CellPrinted(p[1], p[2], on) ELSE <<>>

\* C33 amended: in Immediate mode drawPixel writes the move and the glyph
\* when the new mask of the cell differs from its shadow mask, and nothing
\* when it equals it; in BitmapOnly mode it writes nothing.
C33_ImmediatePixel ==
    \A p \in GotoPixels, on \in BOOLEAN :
        Written(drv, drawPixel(Both, p[1], p[2], on).d) =
            IF gfx.drawMode = "Immediate" /\ CellChanges(p[1], p[2], on)
            THEN CellPrinted(p[1], p[2], on)
            ELSE <<>>

\* C33 witness: in Immediate mode a pixel was drawn and its cell printed,
\* and the same pixel drawn again wrote nothing
C33_Witness ==
    /\ call.op = "drawPixel"
    /\ call.args = <<16, 12, TRUE>>
    /\ gfx.drawMode = "Immediate"
    /\ call.pre.out = <<C_US, 69, 73, C_SO, 33>>
    /\ Written(call.pre, drv) = <<>>

\* the colour of the last setCharColor written in out, White if none
LastColourSent(out) ==
    LET S == {i \in 1..(Len(out) - 1) : out[i] = C_ESC /\ out[i + 1] \in 64..71}
    IN IF S = {} THEN White
       ELSE out[(CHOOSE i \in S : \A j \in S : j <= i) + 1] - 64

\* the places of w that hold a glyph: a byte from 0x20 on that is not the
\* argument of ESC, REP or US
GlyphPlaces(w) ==
    {i \in 1..Len(w) : /\ w[i] >= 32
                       /\ ByteAt(w, i - 1) \notin {C_ESC, C_REP, C_US}
                       /\ ByteAt(w, i - 2) # C_US}

\* the cell, counted from 0 along the rows, under the cursor when the byte
\* at place i of w is written: the cell of the last US before i, moved on by
\* the glyphs and the repeats written since
CellUnderCursor(w, i) ==
    LET S == {j \in 1..(i - 1) : w[j] = C_US}
        us == CHOOSE j \in S : \A l \in S : l <= j
        glyphs == {j \in GlyphPlaces(w) : us < j /\ j < i}
        repeats == {<<j, n>> \in ((us + 1)..(i - 1)) \X (1..CELL_COLS) :
                       w[j] = C_REP /\ n <= ByteAt(w, j + 1) - 64}
    IN (ByteAt(w, us + 1) - 65) * CELL_COLS + (ByteAt(w, us + 2) - 65)
       + Cardinality(glyphs) + Cardinality(repeats)

\* TRUE when, among the bytes of out after place from, a glyph is written,
\* or repeated, into a cell whose colour in the framebuffer g is not the
\* colour last sent before it
GlyphInWrongColour(g, out, from) ==
    \E i \in (from + 1)..Len(out) :
        LET fg == LastColourSent(SubSeq(out, 1, i - 1))
            w == SubSeq(out, from + 1, Len(out))
            k == CellUnderCursor(w, i - from)
        IN \/ /\ (i - from) \in GlyphPlaces(w)
              /\ g.cellColor[k] # fg
           \/ /\ out[i] = C_REP
              /\ \E j \in k..Min(k + ByteAt(out, i + 1) - 65, NUM_CELLS - 1) :
                    g.cellColor[j] # fg

\* C34: after a flush, every glyph it wrote went into a cell whose colour
\* is the colour last sent with setCharColor before the glyph (White if none
\* was ever sent), and the colour tracker equals the colour last sent.
C34_GlyphColour ==
    call.op = "flush" =>
        /\ ~GlyphInWrongColour(gfx, drv.out, Len(call.pre.out))
        /\ gfx.termFgColor = LastColourSent(drv.out)

\* The screen of a terminal that was blank when the program started: FF
\* blanks it and homes the cursor, RS homes the cursor, US row col places
\* it, BS, HT, LF and VT move it by one cell, a byte from 0x20 on paints the
\* cell under the cursor and moves one column on, REP and a count byte
\* 0x40 + n paint n more copies of the last glyph (the count as emitRun
\* writes it), ESC takes one more byte and paints nothing.
Display0 ==
    [Terminal0 EXCEPT !.shown = [k \in 0..(NUM_CELLS - 1) |-> 32]]

\* the screen after the bytes from the i-th to the n-th
RECURSIVE DisplayBytes(_, _, _, _)
DisplayBytes(t, bytes, i, n) ==
    IF i > n \/ t.row \notin 1..CELL_ROWS \/ t.col \notin 1..CELL_COLS THEN t
    ELSE LET b == bytes[i] IN
         IF b = C_US /\ i + 2 <= n
         THEN DisplayBytes([t EXCEPT !.row = bytes[i + 1] - 64, !.col = bytes[i + 2] - 64],
                           bytes, i + 3, n)
         ELSE IF b = C_ESC THEN DisplayBytes(t, bytes, i + 2, n)
         ELSE IF b = C_REP /\ i + 1 <= n
         THEN DisplayBytes(TermPaint(t, t.last, bytes[i + 1] - 64), bytes, i + 2, n)
         ELSE IF b >= 32 THEN DisplayBytes(TermPaint(t, b, 1), bytes, i + 1, n)
         ELSE IF b = C_RS THEN DisplayBytes([t EXCEPT !.row = 1, !.col = 1], bytes, i + 1, n)
         ELSE IF b = C_BS
         THEN DisplayBytes([t EXCEPT !.col = Max(1, @ - 1)], bytes, i + 1, n)
         ELSE IF b = C_HT
         THEN DisplayBytes([t EXCEPT !.col = Min(CELL_COLS, @ + 1)], bytes, i + 1, n)
         ELSE IF b = C_LF
         THEN DisplayBytes([t EXCEPT !.row = Min(CELL_ROWS, @ + 1)], bytes, i + 1, n)
         ELSE IF b = C_VT
         THEN DisplayBytes([t EXCEPT !.row = Max(1, @ - 1)], bytes, i + 1, n)
         ELSE DisplayBytes(t, bytes, i + 1, n)

\* the screen after the bytes of the cursor addresses lo..hi, each with the
\* bytes that follow it up to the next one
RECURSIVE DisplayFrom(_, _, _, _, _)
DisplayFrom(t, bytes, us, lo, hi) ==
    IF lo > hi THEN t
    ELSE IF lo = hi
    THEN DisplayBytes(t, bytes, us[lo], IF lo = Len(us) THEN Len(bytes) ELSE us[lo + 1] - 1)
    ELSE LET mid == (lo + hi) \div 2
             half == DisplayFrom(t, bytes, us, lo, mid)
         IN IF Evaluated(half) THEN DisplayFrom(half, bytes, us, mid + 1, hi) ELSE half

\* the screen after out: blank at the last FF, then what was written since
Display(out) ==
    LET S == {i \in 1..Len(out) : out[i] = C_FF}
        ff == IF S = {} THEN 0 ELSE CHOOSE i \in S : \A j \in S : j <= i
        bytes == SubSeq(out, ff + 1, Len(out))
        us == UsPlaces(bytes)
        first == IF Len(us) = 0 THEN Len(bytes) ELSE us[1] - 1
    IN DisplayFrom(DisplayBytes(Display0, bytes, 1, first), bytes, us, 1, Len(us))

\* a flush has written to the screen: of the operations of the graphics
\* engine only flush leaves G1, at the end of each row of a full redraw and
\* at the end of a diff that wrote something
FlushHasWritten == \E i \in 1..Len(drv.out) : drv.out[i] = C_SI

\* C36: once a flush has written to the screen, the glyph every cell shows
\* is the glyph of its shadow mask.
C36_ShadowIsScreen ==
    FlushHasWritten =>
        LET t == Display(drv.out)
        IN \A k \in 0..(NUM_CELLS - 1) : t.shown[k] = maskToG1(gfx.lastCellMask[k])

====
